---- MODULE Spec2Model ----
(***************************************************************************)
(* LoggingKit: the logger pipeline (sampling -> metadata merge -> masking  *)
(* -> sink), child loggers, the deterministic sampler and SamplingStats.   *)
(*                                                                         *)
(* Strings are sequences of UTF-16 code units (ASCII here), so that        *)
(* charCodeAt, toLowerCase and includes are computed, not assumed.         *)
(* JavaScript values are tagged records, one tag per typeof/Array.isArray  *)
(* outcome the code distinguishes.                                         *)
(***************************************************************************)
EXTENDS Integers, Sequences, FiniteSets, TLC

VARIABLES
  loggers,    \* the WinstonLogger instances of one family, in creation order
  sink,       \* the calls winstonLogger.log(level, message, meta) that the most recent
              \* operation made, in order
  stats,      \* one SamplingStats instance: its private counters
  recorded,   \* history: the decisions passed to record() since construction/reset
  seen,       \* history: (level, message, config) -> set of decisions returned for it
  writes,     \* for each call in sink, the state of the write the sink started for it
  sites,      \* the asynchronous call sites that share the SamplingStats instance;
              \* under SpecInterceptor, the one request being intercepted
  made,       \* history: for each logger, its parent (0 for a root) and the meta it was made with
  last        \* history: the most recent operation and what it returned

vars == <<loggers, sink, writes, sites, stats, recorded, seen, made, last>>

(***************************************************************************)
(* String literals used as inputs.                                         *)
(***************************************************************************)
k_token == <<116, 111, 107, 101, 110>>   \* "token"
k_accessToken == <<97, 99, 99, 101, 115, 115, 84, 111, 107, 101, 110>>   \* "accessToken"
k_PASSWORD == <<80, 65, 83, 83, 87, 79, 82, 68>>   \* "PASSWORD"
k_user == <<117, 115, 101, 114>>   \* "user"
k_service == <<115, 101, 114, 118, 105, 99, 101>>   \* "service"
k_nested == <<110, 101, 115, 116, 101, 100>>   \* "nested"
k_correlationId == <<99, 111, 114, 114, 101, 108, 97, 116, 105, 111, 110, 73, 100>>   \* "correlationId"
k_items == <<105, 116, 101, 109, 115>>   \* "items"
k_self == <<115, 101, 108, 102>>   \* "self"
k_password == <<112, 97, 115, 115, 119, 111, 114, 100>>   \* "password"
k_list == <<108, 105, 115, 116>>   \* "list"
k_Token == <<84, 111, 107, 101, 110>>   \* "Token"
v_secret == <<115, 51, 99, 114, 51, 116>>   \* "s3cr3t"
v_alice == <<97, 108, 105, 99, 101>>   \* "alice"
v_api == <<97, 112, 105>>   \* "api"
v_corr == <<99, 111, 114, 114, 45, 49, 50, 51>>   \* "corr-123"
v_stars == <<42, 42, 42>>   \* "***"
m_empty == <<>>   \* ""
m_test == <<116, 101, 115, 116>>   \* "test"
m_tick == <<116, 105, 99, 107>>   \* "tick"
m_consistent == <<99, 111, 110, 115, 105, 115, 116, 101, 110, 116, 45, 116, 101, 115, 116, 45, 109, 101, 115, 115, 97, 103, 101>>   \* "consistent-test-message"
m_debug == <<68, 101, 98, 117, 103, 32, 109, 101, 115, 115, 97, 103, 101>>   \* "Debug message"
m_poly == <<112, 111, 108, 121, 103, 101, 110, 101, 108, 117, 98, 114, 105, 99, 97, 110, 116, 115>>   \* "polygenelubricants"

(* src/core/masking.ts: DEFAULT_MASK_FIELDS, DEFAULT_MASK_PATTERN *)
DEFAULT_MASK_FIELDS ==
  <<
     <<112, 97, 115, 115, 119, 111, 114, 100>>,   \* "password"
     <<112, 97, 115, 115, 119, 100>>,   \* "passwd"
     <<115, 101, 99, 114, 101, 116>>,   \* "secret"
     <<116, 111, 107, 101, 110>>,   \* "token"
     <<97, 112, 105, 107, 101, 121>>,   \* "apikey"
     <<97, 112, 105, 95, 107, 101, 121>>,   \* "api_key"
     <<97, 112, 105, 45, 107, 101, 121>>,   \* "api-key"
     <<97, 117, 116, 104, 111, 114, 105, 122, 97, 116, 105, 111, 110>>,   \* "authorization"
     <<97, 117, 116, 104>>,   \* "auth"
     <<98, 101, 97, 114, 101, 114>>,   \* "bearer"
     <<99, 114, 101, 100, 101, 110, 116, 105, 97, 108>>,   \* "credential"
     <<112, 114, 105, 118, 97, 116, 101>>,   \* "private"
     <<115, 115, 110>>,   \* "ssn"
     <<115, 111, 99, 105, 97, 108, 95, 115, 101, 99, 117, 114, 105, 116, 121>>,   \* "social_security"
     <<99, 114, 101, 100, 105, 116, 95, 99, 97, 114, 100>>,   \* "credit_card"
     <<99, 114, 101, 100, 105, 116, 99, 97, 114, 100>>,   \* "creditcard"
     <<99, 97, 114, 100, 95, 110, 117, 109, 98, 101, 114>>,   \* "card_number"
     <<99, 97, 114, 100, 110, 117, 109, 98, 101, 114>>,   \* "cardnumber"
     <<99, 118, 118>>,   \* "cvv"
     <<112, 105, 110>>,   \* "pin"
     <<111, 116, 112>>,   \* "otp"
     <<97, 99, 99, 101, 115, 115, 95, 116, 111, 107, 101, 110>>,   \* "access_token"
     <<114, 101, 102, 114, 101, 115, 104, 95, 116, 111, 107, 101, 110>>,   \* "refresh_token"
     <<105, 100, 95, 116, 111, 107, 101, 110>>,   \* "id_token"
     <<106, 119, 116>>   \* "jwt"
  >>

DEFAULT_MASK_PATTERN == <<91, 82, 69, 68, 65, 67, 84, 69, 68, 93>>   \* "[REDACTED]"

(***************************************************************************)
(* JavaScript numbers that the sampler handles.  A finite rate is a        *)
(* multiple q/16 of one sixteenth (exactly representable as a double, and  *)
(* so is its product with 1000); NaN and the infinities are the other      *)
(* values of type number.                                                  *)
(***************************************************************************)
Finite(q) == [k |-> "finite", q |-> q]
NaN == [k |-> "NaN", q |-> 0]
PosInfinity == [k |-> "Infinity", q |-> 0]
NegInfinity == [k |-> "-Infinity", q |-> 0]
FromInt(n) == Finite(n * 16)

\* the relational operator < on numbers: false as soon as one side is NaN
NumLess(a, b) ==
  /\ a.k # "NaN"
  /\ b.k # "NaN"
  /\ \/ a.k = "-Infinity" /\ b.k # "-Infinity"
     \/ b.k = "Infinity" /\ a.k # "Infinity"
     \/ a.k = "finite" /\ b.k = "finite" /\ a.q < b.q

MathMin(a, b) ==
  IF a.k = "NaN" \/ b.k = "NaN" THEN NaN
  ELSE IF NumLess(b, a) THEN b ELSE a

MathMax(a, b) ==
  IF a.k = "NaN" \/ b.k = "NaN" THEN NaN
  ELSE IF NumLess(a, b) THEN b ELSE a

MathFloor(a) ==
  IF a.k = "finite" THEN Finite((a.q \div 16) * 16) ELSE a

\* rate * 1000
Times1000(a) ==
  IF a.k = "finite" THEN Finite(a.q * 1000) ELSE a

(***************************************************************************)
(* 32-bit integers are kept as two 16-bit limbs [hi, lo] of the two's      *)
(* complement pattern, so that the wrap-around of << and & is computed.    *)
(***************************************************************************)
Limb == 2^16
Int32Zero == [hi |-> 0, lo |-> 0]

\* hash << 5
ShiftLeft5(h) ==
  LET l == h.lo * 32
  IN  [hi |-> (h.hi * 32 + (l \div Limb)) % Limb, lo |-> l % Limb]

\* ((hash << 5) - hash + char) & itself: ToInt32 of the exact sum
SubAddWrap(s, h, char) ==
  LET d == s.lo - h.lo + char
      l == d % Limb
      c == (d - l) \div Limb
  IN  [hi |-> (((s.hi - h.hi + c) % Limb) + Limb) % Limb, lo |-> l]

IsNegative32(h) == h.hi >= 32768

\* Math.abs of an int32: the magnitude, which is 2^31 for -2^31
MathAbs32(h) ==
  IF ~IsNegative32(h) THEN h
  ELSE IF h.lo = 0 THEN [hi |-> (Limb - h.hi) % Limb, lo |-> 0]
  ELSE [hi |-> Limb - 1 - h.hi, lo |-> Limb - h.lo]

\* n % 1000 for a non-negative n given by its limbs (65536 % 1000 = 536)
Mod1000(h) == ((h.hi % 1000) * (Limb % 1000) + h.lo) % 1000

(* src/core/sampling.ts: hashString *)
RECURSIVE hashLoop(_, _, _)
hashLoop(str, i, hash) ==
  IF i > Len(str) THEN hash
  ELSE LET char == str[i]
           next == SubAddWrap(ShiftLeft5(hash), hash, char)
       IN  \* the test evaluates next before the next iteration starts
           IF next.lo >= 0 THEN hashLoop(str, i + 1, next) ELSE next

\* hashString returning hash >>> 0, the unsigned reading, instead of Math.abs(hash)
hashString_unsigned(str) == hashLoop(str, 1, Int32Zero)

hashString(str) == MathAbs32(hashLoop(str, 1, Int32Zero))

(* src/core/sampling.ts: SAMPLED_LEVELS, ALWAYS_LOG_LEVELS, LogLevel *)
SAMPLED_LEVELS == <<"debug", "verbose", "silly">>
ALWAYS_LOG_LEVELS == <<"error", "warn", "info", "http">>
LogLevel == {"error", "warn", "info", "http", "verbose", "debug", "silly"}

Includes(arr, x) == \E i \in 1..Len(arr) : arr[i] = x

RateOne == Finite(16)
RateZero == Finite(0)

\* shouldSampleLog without the test of samplingEnabled
shouldSampleLog_ignoresDisabled(level, message, config) ==
  IF Includes(ALWAYS_LOG_LEVELS, level)
  THEN [shouldLog |-> TRUE, wasSampled |-> FALSE, rate |-> RateOne]
  ELSE IF Includes(SAMPLED_LEVELS, level)
  THEN LET rate == MathMax(RateZero, MathMin(RateOne, config.samplingRate))
           threshold == MathFloor(Times1000(rate))
       IN  [shouldLog |-> NumLess(FromInt(Mod1000(hashString(message))), threshold),
            wasSampled |-> TRUE, rate |-> rate]
  ELSE [shouldLog |-> TRUE, wasSampled |-> FALSE, rate |-> RateOne]

\* shouldSampleLog sampling by a running count instead of the message hash:
\* every second decision of a sampled level is kept
shouldSampleLog_countBased(level, message, config) ==
  IF ~config.samplingEnabled \/ ~Includes(SAMPLED_LEVELS, level)
  THEN [shouldLog |-> TRUE, wasSampled |-> FALSE, rate |-> RateOne]
  ELSE [shouldLog |-> stats.total % 2 = 0, wasSampled |-> TRUE,
        rate |-> MathMax(RateZero, MathMin(RateOne, config.samplingRate))]

(* src/core/sampling.ts: shouldSampleLog *)
shouldSampleLog(level, message, config) ==
  IF ~config.samplingEnabled
  THEN [shouldLog |-> TRUE, wasSampled |-> FALSE, rate |-> RateOne]
  ELSE IF Includes(ALWAYS_LOG_LEVELS, level)
  THEN [shouldLog |-> TRUE, wasSampled |-> FALSE, rate |-> RateOne]
  ELSE IF Includes(SAMPLED_LEVELS, level)
  THEN LET rate == MathMax(RateZero, MathMin(RateOne, config.samplingRate))
           hash == hashString(message)
           threshold == MathFloor(Times1000(rate))
           shouldLog == NumLess(FromInt(Mod1000(hash)), threshold)
       IN  [shouldLog |-> shouldLog, wasSampled |-> TRUE, rate |-> rate]
  ELSE [shouldLog |-> TRUE, wasSampled |-> FALSE, rate |-> RateOne]

(* src/core/sampling.ts: createSampler; the returned closure applied *)
createSampler(config, level, message) ==
  IF ~config.samplingEnabled THEN TRUE
  ELSE shouldSampleLog(level, message, config).shouldLog

(***************************************************************************)
(* JavaScript values: one tag per case the code tells apart with typeof,   *)
(* Array.isArray and the null/undefined tests.  A plain object is a        *)
(* function from its own enumerable keys to values.                        *)
(***************************************************************************)
Str(s) == [t |-> "string", s |-> s]
Num(n) == [t |-> "number", n |-> n]
Bool(b) == [t |-> "boolean", b |-> b]
Null == [t |-> "null"]
Undefined == [t |-> "undefined"]
Arr(a) == [t |-> "array", a |-> a]
Obj(o) == [t |-> "object", o |-> o]
EmptyObject == Obj(<<>>)

\* Objects and arrays are written as values where only their content
\* matters. Where identity matters (an object that contains itself, or the
\* question whether a function returns its argument or a copy of it), the
\* value is Ref(id): a reference to the existing object Heap[id].
Ref(id) == [t |-> "ref", id |-> id]

\* const a = { token: "s3cr3t", self: a }
\* const b = [b, "s3cr3t", { password: "s3cr3t", list: b }]
\* const c = { user: "alice", token: "s3cr3t" }
Heap ==
  <<Obj([k \in {k_token, k_self} |->
           IF k = k_token THEN Str(v_secret) ELSE Ref(1)]),
    Arr(<<Ref(2), Str(v_secret),
          Obj([k \in {k_password, k_list} |->
                 IF k = k_password THEN Str(v_secret) ELSE Ref(2)])>>),
    Obj([k \in {k_user, k_token} |->
           IF k = k_user THEN Str(v_alice) ELSE Str(v_secret)])>>

\* the object or array a value denotes
Deref(v) == IF v.t = "ref" THEN Heap[v.id] ELSE v

\* typeof value === "object" && value !== null
IsContainer(v) == v.t \in {"object", "array", "ref"}

\* the own enumerable string keys that a spread or Object.entries visits
OwnKeys(v) == IF Deref(v).t = "object" THEN DOMAIN Deref(v).o ELSE {}

\* { ...target, ...source } evaluated one spread at a time, left to right:
\* each spread defines every own key of its source on the literal
SpreadInto(target, source) ==
  Obj([k \in OwnKeys(target) \cup OwnKeys(source) |->
         IF k \in OwnKeys(source) THEN Deref(source).o[k] ELSE Deref(target).o[k]])

Spread2(a, b) == SpreadInto(SpreadInto(EmptyObject, a), b)

\* String.prototype.toLowerCase on ASCII code units
toLowerCase(str) ==
  [i \in 1..Len(str) |-> IF str[i] >= 65 /\ str[i] <= 90 THEN str[i] + 32 ELSE str[i]]

\* String.prototype.includes
StringIncludes(str, sub) ==
  \E i \in 0..(Len(str) - Len(sub)) :
    \A j \in 1..Len(sub) : str[i + j] = sub[j]

(* src/core/masking.ts: shouldMaskField *)
shouldMaskField(fieldName, maskFields) ==
  LET lowerField == toLowerCase(fieldName)
  IN  \E p \in 1..Len(maskFields) :
        StringIncludes(lowerField, toLowerCase(maskFields[p]))

\* maskObject deleting a sensitive scalar instead of replacing it
RECURSIVE maskObject_dropsMasked(_, _, _, _, _)
maskObject_dropsMasked(obj, maskFields, maskPattern, depth, maxDepth) ==
  IF depth > maxDepth THEN obj
  ELSE IF obj.t = "ref"
  THEN maskObject_dropsMasked(Heap[obj.id], maskFields, maskPattern, depth, maxDepth)
  ELSE IF obj.t \in {"null", "undefined"} THEN obj
  ELSE IF obj.t = "string" THEN obj
  ELSE IF obj.t = "array"
  THEN Arr([i \in 1..Len(obj.a) |->
              maskObject_dropsMasked(obj.a[i], maskFields, maskPattern, depth + 1, maxDepth)])
  ELSE IF obj.t = "object"
  THEN Obj([key \in {k \in DOMAIN obj.o :
                           IsContainer(obj.o[k]) \/ ~shouldMaskField(k, maskFields)} |->
              IF IsContainer(obj.o[key])
              THEN maskObject_dropsMasked(obj.o[key], maskFields, maskPattern,
                                          depth + 1, maxDepth)
              ELSE obj.o[key]])
  ELSE obj

\* maskObject marking a sensitive string instead of replacing it:
\* masked[key] = value + maskPattern
RECURSIVE maskObject_tagsValue(_, _, _, _, _)
maskObject_tagsValue(obj, maskFields, maskPattern, depth, maxDepth) ==
  IF depth > maxDepth THEN obj
  ELSE IF obj.t = "ref"
  THEN maskObject_tagsValue(Heap[obj.id], maskFields, maskPattern, depth, maxDepth)
  ELSE IF obj.t \in {"null", "undefined"} THEN obj
  ELSE IF obj.t = "string" THEN obj
  ELSE IF obj.t = "array"
  THEN Arr([i \in 1..Len(obj.a) |->
              maskObject_tagsValue(obj.a[i], maskFields, maskPattern, depth + 1, maxDepth)])
  ELSE IF obj.t = "object"
  THEN Obj([key \in DOMAIN obj.o |->
              IF IsContainer(obj.o[key])
              THEN maskObject_tagsValue(obj.o[key], maskFields, maskPattern,
                                        depth + 1, maxDepth)
              ELSE IF shouldMaskField(key, maskFields)
              THEN IF obj.o[key].t = "string"
                   THEN Str(obj.o[key].s \o maskPattern)
                   ELSE Str(maskPattern)
              ELSE obj.o[key]])
  ELSE obj

\* maskObject with the depth test one level late
RECURSIVE maskObject_capOffByOne(_, _, _, _, _)
maskObject_capOffByOne(obj, maskFields, maskPattern, depth, maxDepth) ==
  IF depth > maxDepth + 1 THEN obj
  ELSE IF obj.t = "ref"
  THEN maskObject_capOffByOne(Heap[obj.id], maskFields, maskPattern, depth, maxDepth)
  ELSE IF obj.t \in {"null", "undefined"} THEN obj
  ELSE IF obj.t = "string" THEN obj
  ELSE IF obj.t = "array"
  THEN Arr([i \in 1..Len(obj.a) |->
              maskObject_capOffByOne(obj.a[i], maskFields, maskPattern, depth + 1, maxDepth)])
  ELSE IF obj.t = "object"
  THEN Obj([key \in DOMAIN obj.o |->
              IF IsContainer(obj.o[key])
              THEN maskObject_capOffByOne(obj.o[key], maskFields, maskPattern,
                                          depth + 1, maxDepth)
              ELSE IF shouldMaskField(key, maskFields)
              THEN Str(maskPattern)
              ELSE obj.o[key]])
  ELSE obj

\* maskObject testing the key before the kind of the value: a mapping or
\* sequence under a matching key is replaced as a whole
RECURSIVE maskObject_masksContainers(_, _, _, _, _)
maskObject_masksContainers(obj, maskFields, maskPattern, depth, maxDepth) ==
  IF depth > maxDepth THEN obj
  ELSE IF obj.t = "ref"
  THEN maskObject_masksContainers(Heap[obj.id], maskFields, maskPattern, depth, maxDepth)
  ELSE IF obj.t \in {"null", "undefined"} THEN obj
  ELSE IF obj.t = "string" THEN obj
  ELSE IF obj.t = "array"
  THEN Arr([i \in 1..Len(obj.a) |->
              maskObject_masksContainers(obj.a[i], maskFields, maskPattern,
                                         depth + 1, maxDepth)])
  ELSE IF obj.t = "object"
  THEN Obj([key \in DOMAIN obj.o |->
              IF shouldMaskField(key, maskFields)
              THEN Str(maskPattern)
              ELSE IF IsContainer(obj.o[key])
              THEN maskObject_masksContainers(obj.o[key], maskFields, maskPattern,
                                              depth + 1, maxDepth)
              ELSE obj.o[key]])
  ELSE obj

(* src/core/masking.ts: maskObject *)
RECURSIVE maskObject(_, _, _, _, _)
maskObject(obj, maskFields, maskPattern, depth, maxDepth) ==
  IF depth > maxDepth THEN obj
  ELSE IF obj.t = "ref"
  THEN maskObject(Heap[obj.id], maskFields, maskPattern, depth, maxDepth)
  ELSE IF obj.t \in {"null", "undefined"} THEN obj
  ELSE IF obj.t = "string" THEN obj
  ELSE IF obj.t = "array"
  THEN Arr([i \in 1..Len(obj.a) |->
              maskObject(obj.a[i], maskFields, maskPattern, depth + 1, maxDepth)])
  ELSE IF obj.t = "object"
  THEN Obj([key \in DOMAIN obj.o |->
              IF IsContainer(obj.o[key])
              THEN maskObject(obj.o[key], maskFields, maskPattern, depth + 1, maxDepth)
              ELSE IF shouldMaskField(key, maskFields)
              THEN Str(maskPattern)
              ELSE obj.o[key]])
  ELSE obj

\* the default of maskObject's maxDepth parameter
DefaultMaxDepth == 10

\* the fields and the pattern createMasker closes over
MaskerFields(config) ==
  IF Len(config.maskFields) > 0 THEN config.maskFields ELSE DEFAULT_MASK_FIELDS

MaskerPattern(config) ==
  IF config.maskPattern # <<>> THEN config.maskPattern ELSE DEFAULT_MASK_PATTERN

\* createMasker returning, when masking is disabled, a masker that copies
\* its argument: (data) => maskObject(data, [], pattern)
createMasker_copiesWhenDisabled(config, data) ==
  IF ~config.maskEnabled
  THEN maskObject(data, <<>>, MaskerPattern(config), 0, DefaultMaxDepth)
  ELSE maskObject(data, MaskerFields(config), MaskerPattern(config), 0, DefaultMaxDepth)

(* src/core/masking.ts: createMasker; the returned closure applied to data *)
createMasker(config, data) ==
  IF ~config.maskEnabled THEN data
  ELSE maskObject(data, MaskerFields(config), MaskerPattern(config), 0, DefaultMaxDepth)

(***************************************************************************)
(* The logger pipeline (WinstonLogger) and its factory.                    *)
(***************************************************************************)

(* WinstonLogger constructor: metadata defaults to {} when undefined; the  *)
(* masker and the sampler are the closures createMasker(config) and        *)
(* createSampler(config), applied where the methods call them.             *)
WinstonLogger(winstonLogger, metadata, config) ==
  [winstonLogger |-> winstonLogger,
   metadata |-> IF metadata = Undefined THEN EmptyObject ELSE metadata,
   config |-> config]

\* winstonLogger.log(level, message, maskedMeta), as the sink sees it
SinkRecord(winstonLogger, level, message, meta) ==
  [logger |-> winstonLogger, level |-> level, message |-> message, meta |-> meta]

\* logWithMeta without the sampling test
logWithMeta_noSampling(self, level, message, meta, snk) ==
  Append(snk, SinkRecord(self.winstonLogger, level, message,
                         createMasker(self.config, Spread2(self.metadata, meta))))

\* logWithMeta masking the call's meta only: { ...this.metadata, ...masker(meta) }
logWithMeta_maskCallOnly(self, level, message, meta, snk) ==
  IF ~createSampler(self.config, level, message) THEN snk
  ELSE Append(snk, SinkRecord(self.winstonLogger, level, message,
                              Spread2(self.metadata, createMasker(self.config, meta))))

\* logWithMeta merging the other way round: { ...meta, ...this.metadata }
logWithMeta_instanceWins(self, level, message, meta, snk) ==
  IF ~createSampler(self.config, level, message) THEN snk
  ELSE Append(snk, SinkRecord(self.winstonLogger, level, message,
                              createMasker(self.config, Spread2(meta, self.metadata))))

(* WinstonLogger.logWithMeta: snk followed by the calls of winstonLogger.log it makes *)
logWithMeta(self, level, message, meta, snk) ==
  IF ~createSampler(self.config, level, message) THEN snk
  ELSE LET maskedMeta == createMasker(self.config, Spread2(self.metadata, meta))
       IN  Append(snk, SinkRecord(self.winstonLogger, level, message, maskedMeta))

\* child merging the other way round: { ...meta, ...this.metadata }
child_parentWins(ls, self, meta) ==
  [loggers |-> Append(ls, WinstonLogger(ls[self].winstonLogger,
                                        Spread2(meta, ls[self].metadata),
                                        ls[self].config)),
   result |-> Len(ls) + 1]

\* child merging in place: Object.assign(this.metadata, meta) shared with the child
child_assignsInPlace(ls, self, meta) ==
  LET merged == Spread2(ls[self].metadata, meta)
  IN  [loggers |-> Append([ls EXCEPT ![self].metadata = merged],
                          WinstonLogger(ls[self].winstonLogger, merged, ls[self].config)),
       result |-> Len(ls) + 1]

(* WinstonLogger.child: the loggers after the call and the logger returned *)
child(ls, self, meta) ==
  [loggers |-> Append(ls, WinstonLogger(ls[self].winstonLogger,
                                        Spread2(ls[self].metadata, meta),
                                        ls[self].config)),
   result |-> Len(ls) + 1]

(* createLogger: a new winston logger and the root WinstonLogger over it;  *)
(* config is the record buildConfig(configOverrides) returns               *)
createLogger(ls, config, defaultMeta) ==
  LET winstonLogger == Cardinality({ls[i].winstonLogger : i \in 1..Len(ls)}) + 1
  IN  Append(ls, WinstonLogger(winstonLogger, defaultMeta, config))

\* the sink takes each record handed to winstonLogger.log and starts a write
\* for it, which completes or fails later, outside the call
accept(calls) == [i \in DOMAIN calls |-> "pending"]

(* LoggingService.withCorrelationId: the meta it passes to logger.child *)
CorrelationMeta(correlationId) ==
  Obj([k \in {k_correlationId} |-> Str(correlationId)])

(***************************************************************************)
(* Bounds and inputs.                                                      *)
(***************************************************************************)
MaxLoggers == 3

\* an object literal given as a set of <<key, value>> pairs with distinct keys
ObjFrom(pairs) ==
  Obj([k \in {p[1] : p \in pairs} |-> (CHOOSE p \in pairs : p[1] = k)[2]])

\* v wrapped in n object literals { nested: ... }
RECURSIVE Nest(_, _)
Nest(n, v) == IF n = 0 THEN v ELSE ObjFrom({<<k_nested, Nest(n - 1, v)>>})

\* { token: "s3cr3t", user: "alice",
\*   nested: { ... { token: "s3cr3t" } ... } } with the inner token in the
\* mapping at depth DefaultMaxDepth
metaSecret ==
  ObjFrom({<<k_token, Str(v_secret)>>, <<k_user, Str(v_alice)>>,
           <<k_nested, Nest(DefaultMaxDepth - 1, ObjFrom({<<k_token, Str(v_secret)>>}))>>})

\* { user: "api", accessToken: 42 }
metaUser == ObjFrom({<<k_user, Str(v_api)>>, <<k_accessToken, Num(42)>>})

\* { service: "api", PASSWORD: null,
\*   items: ["s3cr3t", { token: true }],
\*   nested: { ... { token: "s3cr3t" } ... } } with the inner token in the
\* mapping at depth DefaultMaxDepth + 1
metaCall ==
  ObjFrom({<<k_service, Str(v_api)>>, <<k_PASSWORD, Null>>,
           <<k_items, Arr(<<Str(v_secret), ObjFrom({<<k_token, Bool(TRUE)>>})>>)>>,
           <<k_nested, Nest(DefaultMaxDepth, ObjFrom({<<k_token, Str(v_secret)>>}))>>})

Config(samplingEnabled, samplingRate, maskEnabled, maskFields, maskPattern) ==
  [samplingEnabled |-> samplingEnabled, samplingRate |-> samplingRate,
   maskEnabled |-> maskEnabled, maskFields |-> maskFields,
   maskPattern |-> maskPattern]

LoggerConfigs ==
  { Config(FALSE, Finite(8), TRUE, <<>>, DEFAULT_MASK_PATTERN),
    Config(TRUE, Finite(8), TRUE, <<k_user>>, v_stars),
    Config(TRUE, Finite(0), TRUE, <<>>, <<>>),
    Config(TRUE, Finite(8), FALSE, <<>>, DEFAULT_MASK_PATTERN) }

DefaultMetas == {Undefined, metaSecret}
Messages == {m_test, m_tick}
CorrelationIds == {v_corr}

ZeroStats == [total |-> 0, sampled |-> 0, dropped |-> 0]
NoCall == [op |-> "none"]

(***************************************************************************)
(* Actions of the logger pipeline.                                         *)
(***************************************************************************)
InitLogger ==
  \E config \in LoggerConfigs, defaultMeta \in DefaultMetas :
    /\ loggers = createLogger(<<>>, config, defaultMeta)
    /\ made = <<[parent |-> 0, meta |-> defaultMeta]>>
    /\ sink = <<>>
    /\ writes = <<>>
    /\ sites = <<>>
    /\ stats = ZeroStats
    /\ recorded = <<>>
    /\ seen = NoCall
    /\ last = [op |-> "createLogger"]

\* logger.child(meta)
Child(p, meta) ==
  /\ Len(loggers) < MaxLoggers
  /\ LET r == child(loggers, p, meta)
     IN  /\ loggers' = r.loggers
         /\ last' = [op |-> "child", logger |-> p, meta |-> meta, result |-> r.result]
  /\ made' = Append(made, [parent |-> p, meta |-> meta])
  /\ sink' = <<>>
  /\ writes' = <<>>
  /\ UNCHANGED <<stats, recorded, seen, sites>>

\* service.withCorrelationId(correlationId)
WithCorrelationId(p, correlationId) ==
  /\ Len(loggers) < MaxLoggers
  /\ LET r == child(loggers, p, CorrelationMeta(correlationId))
     IN  /\ loggers' = r.loggers
         /\ last' = [op |-> "withCorrelationId", logger |-> p,
                     meta |-> CorrelationMeta(correlationId), result |-> r.result]
  /\ made' = Append(made, [parent |-> p, meta |-> CorrelationMeta(correlationId)])
  /\ sink' = <<>>
  /\ writes' = <<>>
  /\ UNCHANGED <<stats, recorded, seen, sites>>

\* log waiting for the sink: the call ends when the write it started has
\* completed or failed, and a failed write is raised to the caller
Log_awaitsWrite(l, level, message, meta) ==
  \E outcome \in {"done", "failed"} :
    /\ sink' = logWithMeta(loggers[l], level, message, meta, <<>>)
    /\ writes' = [i \in DOMAIN sink' |-> outcome]
    /\ last' = [op |-> "log", logger |-> l, level |-> level,
                message |-> message, meta |-> meta,
                returned |-> IF sink' # <<>> /\ outcome = "failed"
                             THEN [t |-> "raised"] ELSE Undefined]
    /\ UNCHANGED <<loggers, made, stats, recorded, seen, sites>>

\* logger.log(level, message, meta): void
Log(l, level, message, meta) ==
  /\ sink' = logWithMeta(loggers[l], level, message, meta, <<>>)
  /\ writes' = accept(sink')
  /\ last' = [op |-> "log", logger |-> l, level |-> level,
              message |-> message, meta |-> meta, returned |-> Undefined]
  /\ UNCHANGED <<loggers, made, stats, recorded, seen, sites>>

\* logger.error(message, meta), logger.warn(message, meta), ...: the method
\* named after a level passes that level to logWithMeta
Leveled(l, method, message, meta) ==
  /\ sink' = logWithMeta(loggers[l], method, message, meta, <<>>)
  /\ writes' = accept(sink')
  /\ last' = [op |-> method, logger |-> l, level |-> method,
              message |-> message, meta |-> meta, returned |-> Undefined]
  /\ UNCHANGED <<loggers, made, stats, recorded, seen, sites>>

(***************************************************************************)
(* SpecLogger: one family; logging with every level through the root and   *)
(* its descendants.                                                        *)
(***************************************************************************)
LoggerChildMetas == {metaSecret}
CallMetas == {Undefined, metaCall}
MethodMetas == {metaUser}

NextLogger ==
  \/ \E p \in 1..Len(loggers), meta \in LoggerChildMetas : Child(p, meta)
  \/ \E l \in 1..Len(loggers), level \in LogLevel, message \in Messages,
        meta \in CallMetas : Log(l, level, message, meta)
  \/ \E l \in 1..Len(loggers), method \in LogLevel, message \in Messages,
        meta \in MethodMetas : Leveled(l, method, message, meta)

SpecLogger == InitLogger /\ [][NextLogger]_vars

(***************************************************************************)
(* SpecChild: one family; building the tree of child loggers, with log     *)
(* calls in between.                                                       *)
(***************************************************************************)
ChildMetas == {metaSecret, metaUser}
ChildCallMetas == {Undefined, metaUser}

NextChild ==
  \/ \E p \in 1..Len(loggers), meta \in ChildMetas : Child(p, meta)
  \/ \E p \in 1..Len(loggers), id \in CorrelationIds : WithCorrelationId(p, id)
  \/ \E l \in 1..Len(loggers), meta \in ChildCallMetas : Log(l, "info", m_test, meta)

SpecChild == InitLogger /\ [][NextChild]_vars

(***************************************************************************)
(* Claims about the logger pipeline.                                       *)
(***************************************************************************)
LogOps == {"log"} \cup LogLevel
ChildOps == {"child", "withCorrelationId"}

\* the configuration shared by the family
FamilyConfig == loggers[1].config

\* what a call (level, message) on logger l must do to the sink and the loggers
LogOutcome(l, level, message) ==
  /\ loggers' = loggers
  /\ IF shouldSampleLog(level, message, loggers[l].config).shouldLog
     THEN /\ Len(sink') = 1
          /\ sink'[1].level = level
          /\ sink'[1].message = message
          /\ sink'[1].logger = loggers[l].winstonLogger
     ELSE sink' = <<>>

\* C1: for every logger of the family and every call of log or of a leveled
\* method, a sampler decision with shouldLog = false leaves the sink without a
\* record and the loggers unchanged; otherwise the sink receives exactly one
\* record, with the level and the message of the call.
\* (every action records its call in last, so a step with last'.op in LogOps
\* is the call of log or of the leveled method that last' describes)
C1_DroppedOrExactlyOneRecord ==
  [][last'.op \in LogOps =>
       LogOutcome(last'.logger, last'.level, last'.message)]_vars

\* a descendant's debug call was dropped by the sampler, and nothing was emitted
C1_Witness ==
  /\ last.op \in LogOps
  /\ last.logger > 1
  /\ ~shouldSampleLog(last.level, last.message, loggers[last.logger].config).shouldLog
  /\ sink = <<>>

\* every scalar under a key matching a field pattern, in the mappings at
\* depth <= DefaultMaxDepth of v, is the replacement text
RECURSIVE AllMasked(_, _, _, _)
AllMasked(v, depth, fields, pattern) ==
  IF depth > DefaultMaxDepth THEN TRUE
  ELSE IF v.t = "object"
  THEN \A k \in DOMAIN v.o :
         IF IsContainer(v.o[k]) THEN AllMasked(v.o[k], depth + 1, fields, pattern)
         ELSE shouldMaskField(k, fields) => v.o[k] = Str(pattern)
  ELSE IF v.t = "array"
  THEN \A i \in 1..Len(v.a) : AllMasked(v.a[i], depth + 1, fields, pattern)
  ELSE TRUE

\* C2: with masking enabled, every record handed to the sink has the
\* replacement text as the value of every scalar-valued key that matches a
\* field pattern, in every mapping nested within the depth cap, whether the
\* key was inherited from the logger's metadata or came with the call.
C2_SinkRecordsMasked ==
  FamilyConfig.maskEnabled =>
    \A i \in 1..Len(sink) :
      AllMasked(sink[i].meta, 0, MaskerFields(FamilyConfig), MaskerPattern(FamilyConfig))

\* a record of a descendant holding an inherited sensitive key (token, from
\* the stored metadata) and one of the call (accessToken or PASSWORD), both
\* replaced
C2_Witness ==
  /\ FamilyConfig.maskEnabled
  /\ last.op \in LogOps
  /\ last.logger > 1
  /\ Len(sink) = 1
  /\ k_token \in DOMAIN loggers[last.logger].metadata.o
  /\ loggers[last.logger].metadata.o[k_token] = Str(v_secret)
  /\ last.meta # Undefined
  /\ k_token \notin DOMAIN last.meta.o
  /\ sink[1].meta.o[k_token] = Str(MaskerPattern(FamilyConfig))
  /\ \E k \in DOMAIN last.meta.o \cap {k_accessToken, k_PASSWORD} :
       sink[1].meta.o[k] = Str(MaskerPattern(FamilyConfig))

\* the merge the claim describes, key by key: the keys of both sides, the
\* call-site value wherever the call has the key
MergedKeyByKey(stored, meta) ==
  LET callKeys == IF meta = Undefined THEN {} ELSE DOMAIN meta.o
  IN  Obj([k \in DOMAIN stored.o \cup callKeys |->
             IF k \in callKeys THEN meta.o[k] ELSE stored.o[k]])

\* C3: the metadata of an emitted record is the masker's image of the merge of
\* the stored metadata with the call's meta, the call-site value used for
\* every key on both sides, one-sided keys kept, an absent meta leaving the
\* stored metadata as the merge; with masking disabled it is that merge.
C3_CallSiteWins ==
  (last.op \in LogOps /\ Len(sink) = 1) =>
    LET stored == loggers[last.logger].metadata
        merged == MergedKeyByKey(stored, last.meta)
    IN  /\ last.meta = Undefined => merged = stored
        /\ sink[1].meta = createMasker(FamilyConfig, merged)
        /\ ~FamilyConfig.maskEnabled => sink[1].meta = merged

\* an emitted record of a logger storing user = "alice", called with
\* user = "api": the record carries the call's value (masking left user alone)
C3_Witness ==
  /\ last.op \in LogOps
  /\ Len(sink) = 1
  /\ last.meta # Undefined
  /\ k_user \in DOMAIN last.meta.o
  /\ k_user \in DOMAIN loggers[last.logger].metadata.o
  /\ loggers[last.logger].metadata.o[k_user] # last.meta.o[k_user]
  /\ sink[1].meta.o[k_user] = last.meta.o[k_user]
  /\ k_token \in DOMAIN sink[1].meta.o

(***************************************************************************)
(* Claims about child loggers.                                             *)
(***************************************************************************)

\* the metas along the chain from the root to logger i, merged left to
\* right, later ones winning; a root made without defaultMeta starts from {}
RECURSIVE ChainMerge(_)
ChainMerge(i) ==
  IF made[i].parent = 0
  THEN (IF made[i].meta = Undefined THEN EmptyObject ELSE made[i].meta)
  ELSE MergedKeyByKey(ChainMerge(made[i].parent), made[i].meta)

\* C4: child(meta) returns a new logger, distinct from its parent, with the
\* parent's sink, masking and sampling configuration, whose stored metadata
\* is the parent's merged with meta, meta winning on shared keys; along a
\* chain of children it is the left-to-right merge of all the metas.
C4_ChildInheritsAndMerges ==
  /\ Len(made) = Len(loggers)
  /\ \A i \in 1..Len(loggers) :
       made[i].parent # 0 =>
         LET p == made[i].parent
         IN  /\ p \in 1..(i - 1)
             /\ loggers[i].winstonLogger = loggers[p].winstonLogger
             /\ loggers[i].config = loggers[p].config
             /\ loggers[i].metadata = MergedKeyByKey(loggers[p].metadata, made[i].meta)
             /\ loggers[i].metadata = ChainMerge(i)
  /\ last.op \in ChildOps =>
       /\ last.result = Len(loggers)
       /\ last.result # last.logger
       /\ made[last.result] = [parent |-> last.logger, meta |-> last.meta]

\* a child of a child whose meta overrides a key its parent stored with
\* another value
C4_Witness ==
  \E i \in 1..Len(loggers) :
    /\ made[i].parent > 1
    /\ k_user \in DOMAIN made[i].meta.o
    /\ k_user \in DOMAIN loggers[made[i].parent].metadata.o
    /\ loggers[made[i].parent].metadata.o[k_user] # made[i].meta.o[k_user]
    /\ loggers[i].metadata.o[k_user] = made[i].meta.o[k_user]
    /\ k_token \in DOMAIN loggers[i].metadata.o

\* every key of a child is its own meta's, with that value, or its parent's
SiblingIsolation ==
  \A i \in 1..Len(loggers) :
    made[i].parent # 0 =>
      \A k \in DOMAIN loggers[i].metadata.o :
        \/ k \in DOMAIN made[i].meta.o /\ loggers[i].metadata.o[k] = made[i].meta.o[k]
        \/ /\ k \notin DOMAIN made[i].meta.o
           /\ k \in DOMAIN loggers[made[i].parent].metadata.o
           /\ loggers[i].metadata.o[k] = loggers[made[i].parent].metadata.o[k]

\* a step keeps every existing logger as it is
ExistingLoggersKept ==
  /\ Len(loggers') >= Len(loggers)
  /\ \A i \in 1..Len(loggers) : loggers'[i] = loggers[i]

\* C5: across child() and log() calls the stored metadata of every existing
\* logger stays what it was when the logger was created; making or using a
\* child never changes the parent's metadata, and two children of one parent
\* never observe each other's keys or values.
C5_MetadataImmutable ==
  /\ []SiblingIsolation
  /\ [][ExistingLoggersKept]_vars

\* two children of the root that store different values for user, one of
\* which has just logged, the root's metadata still the one it was made with
C5_Witness ==
  /\ Len(loggers) = 3
  /\ made[2].parent = 1
  /\ made[3].parent = 1
  /\ k_user \in DOMAIN loggers[2].metadata.o
  /\ k_user \in DOMAIN loggers[3].metadata.o
  /\ loggers[2].metadata.o[k_user] # loggers[3].metadata.o[k_user]
  /\ k_accessToken \in DOMAIN loggers[3].metadata.o
  /\ k_accessToken \notin DOMAIN loggers[2].metadata.o
  /\ k_accessToken \notin DOMAIN loggers[1].metadata.o
  /\ last.op = "log"
  /\ last.logger = 3
  /\ Len(sink) = 1

(***************************************************************************)
(* SamplingStats.                                                          *)
(***************************************************************************)

\* record counting a drop for every decision with shouldLog = false
record_dropsUnsampled(st, decision) ==
  [total |-> st.total + 1,
   sampled |-> IF decision.wasSampled THEN st.sampled + 1 ELSE st.sampled,
   dropped |-> IF ~decision.shouldLog THEN st.dropped + 1 ELSE st.dropped]

(* SamplingStats.record: the counters after the call *)
record(st, decision) ==
  LET counted == [st EXCEPT !.total = @ + 1]
  IN  IF decision.wasSampled
      THEN LET sampledToo == [counted EXCEPT !.sampled = @ + 1]
           IN  IF ~decision.shouldLog
               THEN [sampledToo EXCEPT !.dropped = @ + 1]
               ELSE sampledToo
      ELSE counted

(* SamplingStats.reset: the counters after the call *)
reset(st) == [total |-> 0, sampled |-> 0, dropped |-> 0]

RECURSIVE GCD(_, _)
GCD(a, b) == IF b = 0 THEN a ELSE GCD(b, a % b)

\* the number a / b for integers a >= 0, b > 0, as the fraction in lowest
\* terms (two such quotients are the same double iff the same fraction)
Quotient(a, b) == [num |-> a \div GCD(a, b), den |-> b \div GCD(a, b)]
NumberZero == [num |-> 0, den |-> 1]

\* dropRate dividing by the total instead of the sampled count
dropRate_overTotal(st) ==
  IF st.total > 0 THEN Quotient(st.dropped, st.total) ELSE NumberZero

(* SamplingStats.dropRate getter *)
dropRate(st) ==
  IF st.sampled > 0 THEN Quotient(st.dropped, st.sampled) ELSE NumberZero

(* SamplingStats.toJSON *)
toJSON(st) ==
  [total |-> st.total, sampled |-> st.sampled, dropped |-> st.dropped,
   dropRate |-> dropRate(st)]

(***************************************************************************)
(* SpecStats: one SamplingStats instance; record, reset and the readers    *)
(* in any order.                                                           *)
(***************************************************************************)
MaxRecorded == 4

Decision(shouldLog, wasSampled, rate) ==
  [shouldLog |-> shouldLog, wasSampled |-> wasSampled, rate |-> rate]

\* the decisions passed to record: those the sampler makes, and one with
\* shouldLog = false and wasSampled = false, which record accepts as well
StatDecisions ==
  { Decision(FALSE, TRUE, Finite(8)), Decision(TRUE, TRUE, Finite(8)),
    Decision(TRUE, FALSE, RateOne), Decision(FALSE, FALSE, RateOne) }

InitStats ==
  /\ loggers = <<>>
  /\ made = <<>>
  /\ sink = <<>>
  /\ writes = <<>>
  /\ sites = <<>>
  /\ stats = ZeroStats
  /\ recorded = <<>>
  /\ seen = NoCall
  /\ last = [op |-> "new SamplingStats"]

\* stats.record(decision)
Record(decision) ==
  /\ Len(recorded) < MaxRecorded
  /\ stats' = record(stats, decision)
  /\ recorded' = Append(recorded, decision)
  /\ last' = [op |-> "record", decision |-> decision]
  /\ UNCHANGED <<loggers, made, sink, writes, seen, sites>>

\* stats.reset()
Reset ==
  /\ stats' = reset(stats)
  /\ recorded' = <<>>
  /\ last' = [op |-> "reset"]
  /\ UNCHANGED <<loggers, made, sink, writes, seen, sites>>

\* stats.total, stats.sampled, stats.dropped
GetCounter(name) ==
  /\ last' = [op |-> name, result |-> stats[name]]
  /\ UNCHANGED <<loggers, made, sink, writes, seen, stats, recorded, sites>>

\* stats.dropRate
GetDropRate ==
  /\ last' = [op |-> "dropRate", result |-> dropRate(stats)]
  /\ UNCHANGED <<loggers, made, sink, writes, seen, stats, recorded, sites>>

\* stats.toJSON()
ToJSON ==
  /\ last' = [op |-> "toJSON", result |-> toJSON(stats)]
  /\ UNCHANGED <<loggers, made, sink, writes, seen, stats, recorded, sites>>

NextStats ==
  \/ \E decision \in StatDecisions : Record(decision)
  \/ Reset
  \/ \E name \in {"total", "sampled", "dropped"} : GetCounter(name)
  \/ GetDropRate
  \/ ToJSON

SpecStats == InitStats /\ [][NextStats]_vars

(***************************************************************************)
(* Claims about SamplingStats.                                             *)
(***************************************************************************)
CountOf(seq, P(_)) == Cardinality({i \in 1..Len(seq) : P(seq[i])})
WasSampled(d) == d.wasSampled
WasDropped(d) == d.wasSampled /\ ~d.shouldLog

\* C9: in every state reached by record() calls since construction or the
\* last reset(), total is the number of recorded decisions, sampled the
\* number of them with wasSampled = true, dropped the number of them with
\* wasSampled = true and shouldLog = false; so dropped <= sampled <= total.
C9_CountersMatchHistory ==
  /\ stats.total = Len(recorded)
  /\ stats.sampled = CountOf(recorded, WasSampled)
  /\ stats.dropped = CountOf(recorded, WasDropped)
  /\ stats.dropped <= stats.sampled
  /\ stats.sampled <= stats.total

\* a sampled drop, a sampled keep, an unsampled decision and an unsampled
\* one with shouldLog = false have been recorded
C9_Witness ==
  /\ stats = [total |-> 4, sampled |-> 2, dropped |-> 1]
  /\ \E i \in 1..Len(recorded) : ~recorded[i].wasSampled /\ ~recorded[i].shouldLog
  /\ \E i \in 1..Len(recorded) : ~recorded[i].wasSampled /\ recorded[i].shouldLog

ReadOps == {"total", "sampled", "dropped", "dropRate", "toJSON"}

\* a step that is a reset leaves all counters 0
ResetZeroes ==
  last'.op = "reset" => stats' = [total |-> 0, sampled |-> 0, dropped |-> 0]

\* what dropRate returned is dropped / sampled, and 0 when sampled = 0
DropRateIs(r) ==
  IF stats.sampled > 0
  THEN r.den > 0 /\ r.num * stats.sampled = stats.dropped * r.den
  ELSE r.num = 0

DropRateRight ==
  /\ last.op = "dropRate" => DropRateIs(last.result)
  /\ last.op = "toJSON" =>
       /\ DropRateIs(last.result.dropRate)
       /\ last.result.total = stats.total
       /\ last.result.sampled = stats.sampled
       /\ last.result.dropped = stats.dropped
  /\ last.op \in {"total", "sampled", "dropped"} => last.result = stats[last.op]

\* a step that is a read leaves the counters alone
ReadsChangeNothing == last'.op \in ReadOps => stats' = stats

\* C10: reset() sets total, sampled and dropped to 0 from any state; dropRate
\* is dropped / sampled when sampled > 0 and 0 when sampled = 0; reading the
\* accessors or toJSON changes no counter.
C10_ResetAndDropRate ==
  /\ [][ResetZeroes]_vars
  /\ []DropRateRight
  /\ [][ReadsChangeNothing]_vars

\* dropRate read as 1/3 with an unsampled decision recorded as well
C10_Witness ==
  /\ last.op = "dropRate"
  /\ last.result = [num |-> 1, den |-> 3]
  /\ stats = [total |-> 4, sampled |-> 3, dropped |-> 1]

(***************************************************************************)
(* SpecSampler: shouldSampleLog and the createSampler closure applied to   *)
(* inputs drawn at the start.                                              *)
(***************************************************************************)
SamplerConfig(samplingEnabled, samplingRate) ==
  [samplingEnabled |-> samplingEnabled, samplingRate |-> samplingRate]

\* -0.5, 0, 1/16, 0.5, 15/16, 1, 1.5, NaN and the infinities
SamplingRates ==
  {Finite(q) : q \in {-8, 0, 1, 8, 15, 16, 24}} \cup {NaN, PosInfinity, NegInfinity}

SamplerConfigs ==
  {SamplerConfig(e, r) : e \in BOOLEAN, r \in SamplingRates}

SamplerMessages == {m_empty, m_test, m_tick, m_consistent, m_debug, m_poly}

InitSampler ==
  /\ loggers = <<>>
  /\ made = <<>>
  /\ sink = <<>>
  /\ writes = <<>>
  /\ sites = <<>>
  /\ stats = ZeroStats
  /\ recorded = <<>>
  /\ seen = NoCall
  /\ \E level \in LogLevel, message \in SamplerMessages, config \in SamplerConfigs :
       last = [op |-> "input", level |-> level, message |-> message, config |-> config]

\* shouldSampleLog(level, message, config)
ShouldSampleLog ==
  /\ last.op = "input"
  /\ last' = [last EXCEPT !.op = "shouldSampleLog"] @@
             [result |-> shouldSampleLog(last.level, last.message, last.config)]
  /\ UNCHANGED <<loggers, made, sink, writes, stats, recorded, seen, sites>>

\* createSampler(config)(level, message)
CreateSampler ==
  /\ last.op = "input"
  /\ last' = [last EXCEPT !.op = "createSampler"] @@
             [result |-> createSampler(last.config, last.level, last.message)]
  /\ UNCHANGED <<loggers, made, sink, writes, stats, recorded, seen, sites>>

NextSampler == ShouldSampleLog \/ CreateSampler

SpecSampler == InitSampler /\ [][NextSampler]_vars

AlwaysLogged == {"error", "warn", "info", "http"}
Sampled == {"debug", "verbose", "silly"}

\* C6: shouldSampleLog returns exactly {shouldLog: true, wasSampled: false,
\* rate: 1.0} whenever sampling is disabled (any level, message, rate) or the
\* level is error, warn, info or http (any message, any rate, 0 included);
\* the createSampler closure returns true in those cases too.
C6_ExemptAlwaysLogged ==
  (last.op \in {"shouldSampleLog", "createSampler"}
   /\ (~last.config.samplingEnabled \/ last.level \in AlwaysLogged)) =>
     IF last.op = "shouldSampleLog"
     THEN last.result = [shouldLog |-> TRUE, wasSampled |-> FALSE, rate |-> Finite(16)]
     ELSE last.result = TRUE

\* a debug decision with sampling disabled and rate 0
C6_Witness ==
  /\ last.op = "shouldSampleLog"
  /\ last.level = "debug"
  /\ ~last.config.samplingEnabled
  /\ last.config.samplingRate = Finite(0)
  /\ last.result.shouldLog

\* the number lies in [0, 1]
InUnitInterval(r) == r.k = "finite" /\ r.q >= 0 /\ r.q <= 16

\* C7: for debug, verbose and silly with sampling enabled, a configured rate
\* above 1 gives the decision of rate 1 (shouldLog true), a configured rate
\* below 0 the decision of rate 0 (shouldLog false), and the rate reported
\* in the decision always lies in [0, 1].
C7_RateClamped ==
  (last.op = "shouldSampleLog" /\ last.config.samplingEnabled /\ last.level \in Sampled) =>
    LET rate == last.config.samplingRate
        at(r) == shouldSampleLog(last.level, last.message, SamplerConfig(TRUE, r))
    IN  /\ NumLess(Finite(16), rate) => last.result = at(Finite(16)) /\ last.result.shouldLog
        /\ NumLess(rate, Finite(0)) => last.result = at(Finite(0)) /\ ~last.result.shouldLog
        /\ InUnitInterval(last.result.rate)

\* the part of C7 about rates that are numbers: the same statement for every
\* configured rate other than NaN
C7_RateClampedUnlessNaN ==
  (last.op = "shouldSampleLog" /\ last.config.samplingRate # NaN) => C7_RateClamped

(***************************************************************************)
(* SpecDeterminism: sampling decisions interleaved with log calls and      *)
(* with updates of a SamplingStats; seen remembers one earlier decision.   *)
(***************************************************************************)
DeterminismLevels == {"debug"}
DeterminismLogLevels == {"info", "debug"}
DeterminismConfigs == {SamplerConfig(TRUE, Finite(8)), SamplerConfig(FALSE, Finite(8))}

InitDeterminism ==
  /\ loggers = createLogger(<<>>, Config(TRUE, Finite(8), TRUE, <<>>, DEFAULT_MASK_PATTERN),
                            Undefined)
  /\ made = <<[parent |-> 0, meta |-> Undefined]>>
  /\ sink = <<>>
  /\ writes = <<>>
  /\ sites = <<>>
  /\ stats = ZeroStats
  /\ recorded = <<>>
  /\ seen = NoCall
  /\ last = [op |-> "createLogger"]

\* shouldSampleLog(level, message, config); remember says whether this
\* decision is the one kept in seen for later comparison
Decide(level, message, config, remember) ==
  /\ last' = [op |-> "shouldSampleLog", level |-> level, message |-> message,
              config |-> config, result |-> shouldSampleLog(level, message, config)]
  /\ seen' = IF remember /\ seen = NoCall
             THEN [op |-> "shouldSampleLog", level |-> level, message |-> message,
                   config |-> config,
                   result |-> shouldSampleLog(level, message, config),
                   total |-> stats.total]
             ELSE seen
  /\ UNCHANGED <<loggers, made, sink, writes, stats, recorded, sites>>

\* stats.record(decision) with the decision just made
RecordLast ==
  /\ last.op = "shouldSampleLog"
  /\ Len(recorded) < MaxRecorded
  /\ stats' = record(stats, last.result)
  /\ recorded' = Append(recorded, last.result)
  /\ last' = [op |-> "record", decision |-> last.result]
  /\ UNCHANGED <<loggers, made, sink, writes, seen, sites>>

NextDeterminism ==
  \/ \E level \in DeterminismLevels, message \in Messages,
        config \in DeterminismConfigs, remember \in BOOLEAN :
        Decide(level, message, config, remember)
  \/ RecordLast
  \/ Reset
  \/ \E level \in DeterminismLogLevels, message \in Messages :
        Log(1, level, message, Undefined)

SpecDeterminism == InitDeterminism /\ [][NextDeterminism]_vars

SameCall(a, b) ==
  a.level = b.level /\ a.message = b.message /\ a.config = b.config

NumSites == 3

SiteDecisions ==
  { Decision(FALSE, TRUE, Finite(8)), Decision(TRUE, TRUE, Finite(8)),
    Decision(TRUE, FALSE, RateOne) }

\* began and overtaken are history: the counters at the time the site issued
\* its call, and whether other calls ran between the issue and the run of
\* the site's latest call
IdleSite(done, overtaken) == [pc |-> "idle", done |-> done, overtaken |-> overtaken]
QueuedSite(done, decision, began) ==
  [pc |-> "queued", done |-> done, decision |-> decision, began |-> began]

InitSites ==
  /\ loggers = <<>>
  /\ made = <<>>
  /\ sink = <<>>
  /\ writes = <<>>
  /\ sites = [p \in 1..NumSites |-> IdleSite(<<>>, FALSE)]
  /\ stats = ZeroStats
  /\ recorded = <<>>
  /\ seen = NoCall
  /\ last = [op |-> "new SamplingStats"]

\* site p issues stats.record(decision); the call has not run yet
SiteCall(p, decision) ==
  /\ sites[p].pc = "idle"
  /\ Len(recorded) + Cardinality({q \in 1..NumSites : sites[q].pc = "queued"}) < MaxRecorded
  /\ sites' = [sites EXCEPT ![p] = QueuedSite(sites[p].done, decision, stats)]
  /\ last' = [op |-> "call", site |-> p, decision |-> decision]
  /\ UNCHANGED <<loggers, made, sink, writes, stats, recorded, seen>>

\* the increments of record split around a suspension: the counters are
\* read when the call is issued and written back when it runs
SiteRecord_staleRead(p) ==
  /\ sites[p].pc = "queued"
  /\ stats' = record(sites[p].began, sites[p].decision)
  /\ recorded' = Append(recorded, sites[p].decision)
  /\ sites' = [sites EXCEPT ![p] = IdleSite(Append(sites[p].done, sites[p].decision),
                                          stats # sites[p].began)]
  /\ last' = [op |-> "record", site |-> p, decision |-> sites[p].decision]
  /\ UNCHANGED <<loggers, made, sink, writes, seen>>

\* the queued call of site p runs: stats.record(decision), start to end
SiteRecord(p) ==
  /\ sites[p].pc = "queued"
  /\ stats' = record(stats, sites[p].decision)
  /\ recorded' = Append(recorded, sites[p].decision)
  /\ sites' = [sites EXCEPT ![p] = IdleSite(Append(sites[p].done, sites[p].decision),
                                          stats # sites[p].began)]
  /\ last' = [op |-> "record", site |-> p, decision |-> sites[p].decision]
  /\ UNCHANGED <<loggers, made, sink, writes, seen>>

NextSites ==
  \/ \E p \in 1..NumSites, decision \in SiteDecisions : SiteCall(p, decision)
  \/ \E p \in 1..NumSites : SiteRecord(p)

SpecSites == InitSites /\ [][NextSites]_vars

\* the decisions of the finished calls of sites 1..p, site by site
RECURSIVE FinishedCalls(_)
FinishedCalls(p) ==
  IF p = 0 THEN <<>> ELSE FinishedCalls(p - 1) \o sites[p].done

AnyDecision(d) == TRUE
AllFinished == \A p \in 1..NumSites : sites[p].pc = "idle"

\* C11: when record() is invoked from several call sites with no external
\* serialization, no increment is lost: once all calls have finished,
\* total, sampled and dropped equal the counts of the decisions recorded,
\* for every interleaving.
C11_NoLostIncrement ==
  AllFinished =>
    /\ stats.total = CountOf(FinishedCalls(NumSites), AnyDecision)
    /\ stats.sampled = CountOf(FinishedCalls(NumSites), WasSampled)
    /\ stats.dropped = CountOf(FinishedCalls(NumSites), WasDropped)

\* all calls have finished, every site made one, and the latest calls of
\* two sites ran after calls that were issued later than they were
C11_Witness ==
  /\ AllFinished
  /\ \A p \in 1..NumSites : Len(sites[p].done) >= 1
  /\ Cardinality({p \in 1..NumSites : sites[p].overtaken}) >= 2
  /\ stats.dropped >= 1
  /\ stats.sampled > stats.dropped
  /\ stats.total > stats.sampled

(***************************************************************************)
(* SpecMask: maskObject and the maskers createMasker returns, applied to   *)
(* values of every kind, and a logger whose masking is on or off.          *)
(***************************************************************************)

\* { token: { user: "alice", token: "s3cr3t" }, password: ["s3cr3t", 42] }:
\* containers under matching keys
metaContainers ==
  ObjFrom({<<k_token, ObjFrom({<<k_user, Str(v_alice)>>, <<k_token, Str(v_secret)>>})>>,
           <<k_password, Arr(<<Str(v_secret), Num(42)>>)>>})

\* { Token: undefined, user: "[REDACTED]", password: "[REDACTED]" }
metaRedacted ==
  ObjFrom({<<k_Token, Undefined>>, <<k_user, Str(DEFAULT_MASK_PATTERN)>>,
           <<k_password, Str(DEFAULT_MASK_PATTERN)>>})

\* ["s3cr3t", { PASSWORD: "s3cr3t", accessToken: false }, ["s3cr3t"]]
arraySecrets ==
  Arr(<<Str(v_secret),
        ObjFrom({<<k_PASSWORD, Str(v_secret)>>, <<k_accessToken, Bool(FALSE)>>}),
        Arr(<<Str(v_secret)>>)>>)

\* a mapping nested 15 levels deep around { token: "s3cr3t" }
metaDeep == Nest(15, ObjFrom({<<k_token, Str(v_secret)>>}))

MaskValues ==
  { Str(v_secret), Num(42), Bool(TRUE), Null, Undefined, EmptyObject, Arr(<<>>),
    metaSecret, metaUser, metaCall, metaContainers, metaRedacted, arraySecrets,
    metaDeep, Ref(1), Ref(2), Ref(3) }

MaskFieldSets == {DEFAULT_MASK_FIELDS, <<k_PASSWORD, k_user>>, <<>>}
MaskPatterns == {DEFAULT_MASK_PATTERN, v_stars}
MaskDepths == {DefaultMaxDepth, 2}

MaskerConfigs ==
  { Config(FALSE, RateOne, maskEnabled, maskFields, maskPattern) :
      maskEnabled \in BOOLEAN, maskFields \in {<<>>, <<k_PASSWORD, k_user>>},
      maskPattern \in {<<>>, v_stars} }

MaskLoggerConfigs ==
  { Config(FALSE, RateOne, maskEnabled, <<k_PASSWORD, k_user>>, v_stars) :
      maskEnabled \in BOOLEAN }

InitMask ==
  \E config \in MaskLoggerConfigs :
    /\ loggers = createLogger(<<>>, config, metaSecret)
    /\ made = <<[parent |-> 0, meta |-> metaSecret]>>
    /\ sink = <<>>
    /\ writes = <<>>
    /\ sites = <<>>
    /\ stats = ZeroStats
    /\ recorded = <<>>
    /\ seen = NoCall
    /\ last = [op |-> "createLogger"]

\* maskObject(obj, maskFields, maskPattern, 0, maxDepth)
MaskObject(obj, maskFields, maskPattern, maxDepth) ==
  /\ last' = [op |-> "maskObject", obj |-> obj, maskFields |-> maskFields,
              maskPattern |-> maskPattern, maxDepth |-> maxDepth,
              result |-> maskObject(obj, maskFields, maskPattern, 0, maxDepth)]
  /\ UNCHANGED <<loggers, made, sink, writes, sites, stats, recorded, seen>>

\* createMasker(config)(data)
Masker(config, data) ==
  /\ last' = [op |-> "masker", config |-> config, data |-> data,
              result |-> createMasker(config, data)]
  /\ UNCHANGED <<loggers, made, sink, writes, sites, stats, recorded, seen>>

NextMask ==
  \/ \E obj \in MaskValues, maskFields \in MaskFieldSets, maskPattern \in MaskPatterns,
        maxDepth \in MaskDepths : MaskObject(obj, maskFields, maskPattern, maxDepth)
  \/ \E config \in MaskerConfigs, data \in MaskValues : Masker(config, data)
  \/ Log(1, "info", m_test, metaCall)

SpecMask == InitMask /\ [][NextMask]_vars

(***************************************************************************)
(* Claims about masking.                                                   *)
(***************************************************************************)

\* a letter and its other case are the same letter
CaseFold(c) == IF c >= 97 /\ c <= 122 THEN c - 32 ELSE c

\* key contains pattern as a case-insensitive substring
KeyContains(key, pattern) ==
  \E at \in 0..(Len(key) - Len(pattern)) :
    \A j \in 1..Len(pattern) : CaseFold(key[at + j]) = CaseFold(pattern[j])

KeyMatches(key, fields) == \E p \in 1..Len(fields) : KeyContains(key, fields[p])

\* The masking rule, for the mappings and sequences on the first `levels`
\* levels of `in`: out has the keys and the length of in; a value that is
\* not a container is the replacement text exactly when it sits under a
\* matching key of a mapping, and is kept otherwise (elements of sequences
\* and a top-level scalar included); a container is never replaced, the
\* rule holds inside it.
RECURSIVE MaskRule(_, _, _, _, _)
MaskRule(in, out, fields, pattern, levels) ==
  LET v == Deref(in)
  IN  IF levels = 0 THEN TRUE
      ELSE IF v.t = "array"
      THEN /\ out.t = "array"
           /\ Len(out.a) = Len(v.a)
           /\ \A i \in 1..Len(v.a) :
                IF IsContainer(v.a[i])
                THEN /\ IsContainer(out.a[i])
                     /\ MaskRule(v.a[i], out.a[i], fields, pattern, levels - 1)
                ELSE out.a[i] = v.a[i]
      ELSE IF v.t = "object"
      THEN /\ out.t = "object"
           /\ DOMAIN out.o = DOMAIN v.o
           /\ \A k \in DOMAIN v.o :
                IF IsContainer(v.o[k])
                THEN /\ IsContainer(out.o[k])
                     /\ MaskRule(v.o[k], out.o[k], fields, pattern, levels - 1)
                ELSE IF KeyMatches(k, fields)
                THEN out.o[k] = Str(pattern)
                ELSE out.o[k] = v.o[k]
      ELSE out = in

\* C12: maskObject replaces a value by the replacement text if and only if
\* the value is not a container and is the direct value of a mapping key
\* that contains some field pattern as a case-insensitive substring;
\* mappings and sequences are always recursed into and never replaced as a
\* whole; scalar elements of sequences and a top-level scalar are never
\* replaced. As stated: at every depth.
C12_MaskedIffMatchingScalar ==
  last.op = "maskObject" =>
    MaskRule(last.obj, last.result, last.maskFields, last.maskPattern,
             2 * DefaultMaxDepth)

\* C12 (amended): the same rule for the mappings and sequences at depth
\* 0..maxDepth, which are the ones maskObject visits.
C12_MaskedIffMatchingScalarWithinCap ==
  last.op = "maskObject" =>
    MaskRule(last.obj, last.result, last.maskFields, last.maskPattern,
             last.maxDepth + 1)

\* { token: { user, token }, password: [..] } masked with the default
\* fields: both containers are kept, the inner token is replaced, the
\* elements of the sequence are not
C12_Witness ==
  /\ last.op = "maskObject"
  /\ last.obj = metaContainers
  /\ last.maskFields = DEFAULT_MASK_FIELDS
  /\ last.result.o[k_token].o[k_token] = Str(last.maskPattern)
  /\ last.result.o[k_token].o[k_user] = Str(v_alice)
  /\ last.result.o[k_password] = Arr(<<Str(v_secret), Num(42)>>)

\* out has the container shape of in, level by level for `levels` levels: a
\* mapping for a mapping, with exactly its keys; a sequence for a sequence,
\* of its length, scalar elements in their places; a scalar, null or
\* undefined for a scalar, null or undefined
RECURSIVE SameShape(_, _, _)
SameShape(in, out, levels) ==
  LET v == Deref(in)
      w == Deref(out)
  IN  IF levels = 0 THEN TRUE
      ELSE IF v.t = "array"
      THEN /\ w.t = "array"
           /\ Len(w.a) = Len(v.a)
           /\ \A i \in 1..Len(v.a) :
                /\ SameShape(v.a[i], w.a[i], levels - 1)
                /\ ~IsContainer(v.a[i]) => w.a[i] = v.a[i]
      ELSE IF v.t = "object"
      THEN /\ w.t = "object"
           /\ DOMAIN w.o = DOMAIN v.o
           /\ \A k \in DOMAIN v.o : SameShape(v.o[k], w.o[k], levels - 1)
      ELSE ~IsContainer(out)

\* C13: for every input, the output of maskObject has the container shape
\* of the input: the same key set for a mapping, the same length and element
\* order for a sequence, a scalar or null for a scalar or null; no key or
\* element is added or removed.
C13_ShapePreserved ==
  /\ last.op = "maskObject" => SameShape(last.obj, last.result, 2 * DefaultMaxDepth)
  /\ last.op = "masker" => SameShape(last.data, last.result, 2 * DefaultMaxDepth)

\* a sequence holding a scalar, a mapping with two sensitive scalars and a
\* sequence: both scalars of the mapping were replaced, nothing else moved
C13_Witness ==
  /\ last.op = "maskObject"
  /\ last.obj = arraySecrets
  /\ last.maskFields = DEFAULT_MASK_FIELDS
  /\ last.result # last.obj
  /\ Len(last.result.a) = 3
  /\ DOMAIN last.result.a[2].o = {k_PASSWORD, k_accessToken}
  /\ last.result.a[2].o[k_accessToken] = Str(last.maskPattern)

\* C14: masking is idempotent: for any input x and any fixed field patterns
\* and replacement text, mask(mask(x)) equals mask(x).
C14_Idempotent ==
  /\ last.op = "maskObject" =>
       maskObject(last.result, last.maskFields, last.maskPattern, 0, last.maxDepth)
         = last.result
  /\ last.op = "masker" => createMasker(last.config, last.result) = last.result

\* the first masking replaced a string: the result differs from the input,
\* and the replacement text sits under the matching key
C14_Witness ==
  /\ last.op = "maskObject"
  /\ last.obj = Ref(3)
  /\ last.maskFields = DEFAULT_MASK_FIELDS
  /\ last.result.o[k_token] = Str(last.maskPattern)
  /\ last.result.o[k_user] = Str(v_alice)

\* everything first reached at a depth greater than the cap is what it was
\* in the input: the same value, or the same reference
RECURSIVE UnchangedBeyond(_, _, _, _)
UnchangedBeyond(in, out, depth, maxDepth) ==
  LET v == Deref(in)
  IN  IF depth > maxDepth THEN out = in
      ELSE IF v.t = "array"
      THEN /\ out.t = "array"
           /\ Len(out.a) = Len(v.a)
           /\ \A i \in 1..Len(v.a) :
                UnchangedBeyond(v.a[i], out.a[i], depth + 1, maxDepth)
      ELSE IF v.t = "object"
      THEN /\ out.t = "object"
           /\ DOMAIN out.o = DOMAIN v.o
           /\ \A k \in DOMAIN v.o :
                IsContainer(v.o[k]) =>
                  UnchangedBeyond(v.o[k], out.o[k], depth + 1, maxDepth)
      ELSE TRUE

\* the value n steps down the key `key`
RECURSIVE Down(_, _, _)
Down(v, key, n) == IF n = 0 THEN v ELSE Down(Deref(v).o[key], key, n - 1)

\* C15: maskObject never descends more than maxDepth + 1 levels (default
\* cap 10): any value first reached at a depth greater than the cap is
\* returned unchanged and unmasked, so masking returns a result on a mapping
\* nested 15 levels deep and on self-referential structures.
C15_DepthBounded ==
  /\ last.op = "maskObject" =>
       UnchangedBeyond(last.obj, last.result, 0, last.maxDepth)
  /\ last.op = "masker" /\ last.config.maskEnabled =>
       UnchangedBeyond(last.data, last.result, 0, DefaultMaxDepth)

\* const a = { token, self: a } masked with the default cap: the token is
\* replaced on levels 0..10, and the value at level 11 is a itself
C15_Witness ==
  /\ last.op = "maskObject"
  /\ last.obj = Ref(1)
  /\ last.maxDepth = DefaultMaxDepth
  /\ last.maskFields = DEFAULT_MASK_FIELDS
  /\ last.result.o[k_token] = Str(last.maskPattern)
  /\ Down(last.result, k_self, DefaultMaxDepth).o[k_token] = Str(last.maskPattern)
  /\ Down(last.result, k_self, DefaultMaxDepth + 1) = Ref(1)

\* C16: a masker created with masking disabled is the identity: it returns
\* the very same value (the same reference, not a copy), whatever maskFields
\* and maskPattern are, and a logger configured this way hands the merged
\* metadata to the sink with no value replaced.
C16_DisabledIsIdentity ==
  /\ (last.op = "masker" /\ ~last.config.maskEnabled) => last.result = last.data
  /\ (last.op \in LogOps /\ ~loggers[last.logger].config.maskEnabled) =>
       /\ Len(sink) = 1
       /\ sink[1].meta = MergedKeyByKey(loggers[last.logger].metadata, last.meta)

\* the disabled masker, configured with fields that match, applied to the
\* object a, whose token it leaves alone: it returns a
C16_Witness ==
  /\ last.op = "masker"
  /\ ~last.config.maskEnabled
  /\ last.config.maskFields # <<>>
  /\ last.data = Ref(1)
  /\ last.result = Ref(1)

(***************************************************************************)
(* Correlation ids (src/core/config.ts).                                   *)
(***************************************************************************)
CORRELATION_ID_HEADER == <<120, 45, 114, 101, 113, 117, 101, 115, 116, 45, 105, 100>>   \* "x-request-id"
h_XRequestId == <<88, 45, 82, 101, 113, 117, 101, 115, 116, 45, 73, 100>>   \* "X-Request-Id"
v_idLower == <<114, 101, 113, 45, 49>>   \* "req-1"
v_idUpper == <<82, 69, 81, 45, 50>>   \* "REQ-2"
v_idNext == <<114, 101, 113, 45, 51>>   \* "req-3"
u_first == <<51, 98, 50, 52, 49, 49, 48, 49, 45, 101, 50, 98, 98, 45, 52, 50, 53, 53, 45, 56, 99, 97, 102, 45, 52, 49, 51, 54, 99, 53, 54, 54, 97, 57, 54, 50>>   \* "3b241101-e2bb-4255-8caf-4136c566a962"
u_second == <<57, 102, 49, 99, 48, 101, 53, 50, 45, 55, 97, 48, 100, 45, 52, 99, 49, 98, 45, 98, 49, 100, 101, 45, 48, 97, 54, 102, 50, 100, 48, 99, 55, 101, 49, 49>>   \* "9f1c0e52-7a0d-4c1b-b1de-0a6f2d0c7e11"

\* the strings a call of uuidv4() can return (two of them)
uuidv4 == {u_first, u_second}

\* headers[name]: undefined for a name the mapping does not have
HeaderAt(headers, name) ==
  IF name \in DOMAIN headers THEN headers[name] ELSE Undefined

\* a ?? b
NullishCoalesce(a, b) == IF a.t \in {"null", "undefined"} THEN b ELSE a

\* the truthiness of a value in a condition
Truthy(v) ==
  CASE v.t = "string" -> Len(v.s) > 0
    [] v.t = "number" -> v.n # 0
    [] v.t = "boolean" -> v.b
    [] v.t \in {"null", "undefined"} -> FALSE
    [] OTHER -> TRUE

\* getCorrelationId returning an empty header as it is:
\* typeof headerValue === "string" without the length test
getCorrelationId_noLengthCheck(headers, uuid) ==
  LET headerValue == NullishCoalesce(HeaderAt(headers, CORRELATION_ID_HEADER),
                                     HeaderAt(headers, h_XRequestId))
  IN  [headers |-> headers,
       result |->
         IF headerValue.t = "string" THEN headerValue
         ELSE IF headerValue.t = "array" /\ Len(headerValue.a) > 0
                 /\ Truthy(headerValue.a[1])
         THEN headerValue.a[1]
         ELSE Str(uuid)]

\* getCorrelationId taking the last element of a sequence:
\* headerValue[headerValue.length - 1]
getCorrelationId_lastElement(headers, uuid) ==
  LET headerValue == NullishCoalesce(HeaderAt(headers, CORRELATION_ID_HEADER),
                                     HeaderAt(headers, h_XRequestId))
  IN  [headers |-> headers,
       result |->
         IF headerValue.t = "string" /\ Len(headerValue.s) > 0 THEN headerValue
         ELSE IF headerValue.t = "array" /\ Len(headerValue.a) > 0
                 /\ Truthy(headerValue.a[Len(headerValue.a)])
         THEN headerValue.a[Len(headerValue.a)]
         ELSE Str(uuid)]

(* getCorrelationId: the value returned and the header mapping after the   *)
(* call; uuid is the string uuidv4() returns if it is called               *)
getCorrelationId(headers, uuid) ==
  LET headerValue == NullishCoalesce(HeaderAt(headers, CORRELATION_ID_HEADER),
                                     HeaderAt(headers, h_XRequestId))
  IN  [headers |-> headers,
       result |->
         IF headerValue.t = "string" /\ Len(headerValue.s) > 0 THEN headerValue
         ELSE IF headerValue.t = "array" /\ Len(headerValue.a) > 0
                 /\ Truthy(headerValue.a[1])
         THEN headerValue.a[1]
         ELSE Str(uuid)]

(* generateCorrelationId *)
generateCorrelationId(uuid) == Str(uuid)

\* what a header can hold: nothing, an empty or non-empty string, an empty
\* sequence, sequences of strings with an empty or non-empty first element
HeaderValues(id) ==
  { Undefined, Str(m_empty), Str(id), Arr(<<>>), Arr(<<Str(id), Str(v_idNext)>>),
    Arr(<<Str(m_empty)>>), Arr(<<Str(m_empty), Str(v_idNext)>>) }

\* the header mappings: each form of the header absent or holding a value
HeaderMaps ==
  { h \in UNION { [names -> HeaderValues(v_idLower) \cup HeaderValues(v_idUpper)] :
                    names \in SUBSET {CORRELATION_ID_HEADER, h_XRequestId} } :
      /\ CORRELATION_ID_HEADER \in DOMAIN h =>
           h[CORRELATION_ID_HEADER] \in HeaderValues(v_idLower)
      /\ h_XRequestId \in DOMAIN h => h[h_XRequestId] \in HeaderValues(v_idUpper) }

InitCorrelation ==
  /\ loggers = <<>>
  /\ made = <<>>
  /\ sink = <<>>
  /\ writes = <<>>
  /\ sites = <<>>
  /\ stats = ZeroStats
  /\ recorded = <<>>
  /\ seen = NoCall
  /\ last = NoCall

\* getCorrelationId(headers)
GetCorrelationId(headers, uuid) ==
  /\ LET r == getCorrelationId(headers, uuid)
     IN  last' = [op |-> "getCorrelationId", headers |-> headers, uuid |-> uuid,
                  result |-> r.result, headersAfter |-> r.headers]
  /\ UNCHANGED <<loggers, made, sink, writes, sites, stats, recorded, seen>>

\* generateCorrelationId()
GenerateCorrelationId(uuid) ==
  /\ last' = [op |-> "generateCorrelationId", uuid |-> uuid,
              result |-> generateCorrelationId(uuid)]
  /\ UNCHANGED <<loggers, made, sink, writes, sites, stats, recorded, seen>>

NextCorrelation ==
  \/ \E headers \in HeaderMaps, uuid \in uuidv4 : GetCorrelationId(headers, uuid)
  \/ \E uuid \in uuidv4 : GenerateCorrelationId(uuid)

SpecCorrelation == InitCorrelation /\ [][NextCorrelation]_vars

(***************************************************************************)
(* Claims about correlation ids.                                           *)
(***************************************************************************)
NonEmptyString(v) == v.t = "string" /\ v.s # <<>>
LowerForm(headers) == HeaderAt(headers, CORRELATION_ID_HEADER)
CapitalizedForm(headers) == HeaderAt(headers, h_XRequestId)

\* C17: getCorrelationId returns, unchanged, the client-supplied id whenever
\* either the lower-case header x-request-id or the capitalized form
\* X-Request-Id holds a non-empty string, the lower-case form taking
\* precedence when both do.
C17_ClientIdPassedThrough ==
  last.op = "getCorrelationId" =>
    /\ NonEmptyString(LowerForm(last.headers)) =>
         last.result = LowerForm(last.headers)
    /\ (~NonEmptyString(LowerForm(last.headers))
        /\ NonEmptyString(CapitalizedForm(last.headers))) =>
         last.result = CapitalizedForm(last.headers)

\* the part of C17 that holds: the lower-case form when it is a non-empty
\* string, the capitalized form when it is one and the lower-case form is
\* absent (or undefined)
C17_ClientIdPassedThroughWhenLowerAbsent ==
  last.op = "getCorrelationId" =>
    /\ NonEmptyString(LowerForm(last.headers)) =>
         last.result = LowerForm(last.headers)
    /\ (LowerForm(last.headers) = Undefined
        /\ NonEmptyString(CapitalizedForm(last.headers))) =>
         last.result = CapitalizedForm(last.headers)

\* the value of the correlation header: the lower-case form, or the
\* capitalized form when there is no lower-case one
HeaderValue(headers) ==
  IF LowerForm(headers) # Undefined THEN LowerForm(headers) ELSE CapitalizedForm(headers)

NonEmptySequence(v) == v.t = "array" /\ v.a # <<>>

\* C18: when the correlation header value is a non-empty sequence of
\* strings, getCorrelationId returns its first element, for every such
\* sequence.
C18_FirstOfSequence ==
  (last.op = "getCorrelationId" /\ NonEmptySequence(HeaderValue(last.headers))) =>
    last.result = HeaderValue(last.headers).a[1]

\* C18 (amended): when the correlation header value is a non-empty sequence
\* of strings whose first element is not the empty string, getCorrelationId
\* returns that first element.
C18_FirstOfSequenceUnlessEmpty ==
  (last.op = "getCorrelationId" /\ NonEmptySequence(HeaderValue(last.headers))
   /\ HeaderValue(last.headers).a[1] # Str(m_empty)) =>
    last.result = HeaderValue(last.headers).a[1]

\* X-Request-Id: ["REQ-2", "req-3"] with no lower-case form: the first
\* element came back
C18_Witness ==
  /\ last.op = "getCorrelationId"
  /\ CORRELATION_ID_HEADER \notin DOMAIN last.headers
  /\ CapitalizedForm(last.headers) = Arr(<<Str(v_idUpper), Str(v_idNext)>>)
  /\ last.result = Str(v_idUpper)

\* key absent, empty string, empty sequence
Unusable(v) == v \in {Undefined, Str(m_empty), Arr(<<>>)}

\* C19: getCorrelationId never fails and never modifies the header mapping
\* it is given: for every header mapping in which neither header form holds
\* a usable value (key absent, empty string, empty sequence) it returns a
\* freshly generated id, and its result is always a non-empty string.
C19_GeneratesWhenUnusable ==
  last.op = "getCorrelationId" =>
    /\ last.headersAfter = last.headers
    /\ NonEmptyString(last.result)
    /\ (Unusable(LowerForm(last.headers)) /\ Unusable(CapitalizedForm(last.headers))) =>
         /\ last.result = Str(last.uuid)
         /\ last.result.s \in uuidv4

\* x-request-id: "" and X-Request-Id: []: neither is usable, the id is the
\* generated one
C19_Witness ==
  /\ last.op = "getCorrelationId"
  /\ LowerForm(last.headers) = Str(m_empty)
  /\ CapitalizedForm(last.headers) = Arr(<<>>)
  /\ last.result = Str(last.uuid)
  /\ last.headersAfter = last.headers

(***************************************************************************)
(* SpecSink: log calls, and the sink completing or failing the writes it   *)
(* was handed, at any later time.                                          *)
(***************************************************************************)

\* the sink completes the write of call i
WriteDone(i) ==
  /\ writes[i] = "pending"
  /\ writes' = [writes EXCEPT ![i] = "done"]
  /\ UNCHANGED <<loggers, made, sink, sites, stats, recorded, seen, last>>

\* the write of call i fails in the sink
WriteFail(i) ==
  /\ writes[i] = "pending"
  /\ writes' = [writes EXCEPT ![i] = "failed"]
  /\ UNCHANGED <<loggers, made, sink, sites, stats, recorded, seen, last>>

NextSink ==
  \/ \E level \in LogLevel, meta \in {Undefined, metaUser} : Log(1, level, m_test, meta)
  \/ \E method \in LogLevel : Leveled(1, method, m_tick, metaUser)
  \/ \E i \in DOMAIN writes : WriteDone(i)
  \/ \E i \in DOMAIN writes : WriteFail(i)

SpecSink == InitLogger /\ [][NextSink]_vars

\* a step of the sink: a pending write completes or fails
SinkStep ==
  \E i \in DOMAIN writes :
    /\ i \in DOMAIN writes'
    /\ writes[i] = "pending"
    /\ writes'[i] \in {"done", "failed"}

s_at == <<97, 116, 32>>   \* "at "
s_nativeParen == <<40, 110, 97, 116, 105, 118, 101, 41>>   \* "(native)"
s_native == <<110, 97, 116, 105, 118, 101>>   \* "native"
s_angleNative == <<60, 110, 97, 116, 105, 118, 101, 62>>   \* "<native>"
s_anonymous == <<60, 97, 110, 111, 110, 121, 109, 111, 117, 115, 62>>   \* "<anonymous>"
s_unknown == <<117, 110, 107, 110, 111, 119, 110>>   \* "unknown"
s_node_modules == <<110, 111, 100, 101, 95, 109, 111, 100, 117, 108, 101, 115>>   \* "node_modules"

\* the code units \s matches and trim() removes
WhiteSpace ==
  {9, 10, 11, 12, 13, 32, 160, 5760, 8232, 8233, 8239, 8287, 12288, 65279}
    \cup (8192..8202)

\* the code units . does not match
LineTerminator == {10, 13, 8232, 8233}

\* \d
IsDigit(c) == c >= 48 /\ c <= 57

SetMin(S) == CHOOSE x \in S : \A y \in S : x <= y
SetMax(S) == CHOOSE x \in S : \A y \in S : x >= y

\* String.prototype.trim
trim(str) ==
  LET keep == {i \in 1..Len(str) : str[i] \notin WhiteSpace}
  IN  IF keep = {} THEN <<>> ELSE SubSeq(str, SetMin(keep), SetMax(keep))

\* String.prototype.startsWith
startsWith(str, prefix) ==
  /\ Len(str) >= Len(prefix)
  /\ \A i \in 1..Len(prefix) : str[i] = prefix[i]

\* String.prototype.slice(start) for 0 <= start
slice(str, start) == SubSeq(str, start + 1, Len(str))

\* String.prototype.split(separator) for a separator of one code unit
RECURSIVE split(_, _)
split(str, separator) ==
  LET found == {i \in 1..Len(str) : str[i] = separator}
  IN  IF found = {} THEN <<str>>
      ELSE <<SubSeq(str, 1, SetMin(found) - 1)>>
             \o split(SubSeq(str, SetMin(found) + 1, Len(str)), separator)

\* parseInt(digits, 10) for a non-empty run of decimal digits
RECURSIVE parseInt(_)
parseInt(digits) ==
  IF Len(digits) = 1 THEN digits[1] - 48
  ELSE parseInt(SubSeq(digits, 1, Len(digits) - 1)) * 10 + (digits[Len(digits)] - 48)

NoMatch == [ok |-> FALSE]

\* /^(.+):(\d+)$/ : the digits are what follows the last colon
matchColonDigits(str) ==
  LET colons == {i \in 1..Len(str) : str[i] = 58}
  IN  IF colons = {} THEN NoMatch
      ELSE LET c == SetMax(colons)
           IN  IF /\ c >= 2
                  /\ c < Len(str)
                  /\ \A i \in (c + 1)..Len(str) : IsDigit(str[i])
                  /\ \A i \in 1..(c - 1) : str[i] \notin LineTerminator
               THEN [ok |-> TRUE, head |-> SubSeq(str, 1, c - 1),
                     digits |-> SubSeq(str, c + 1, Len(str))]
               ELSE NoMatch

\* the one element of a singleton: Only({e(x) : x \in {v}}) is e of the value of v
Only(S) == CHOOSE x \in S : TRUE

\* /^(.+):(\d+):(\d+)$/
matchColonDigitsTwice(str) ==
  Only({IF ~outer.ok THEN NoMatch
        ELSE Only({IF ~inner.ok THEN NoMatch
                   ELSE [ok |-> TRUE, head |-> inner.head,
                         line |-> inner.digits, column |-> outer.digits] :
                   inner \in {matchColonDigits(outer.head)}}) :
        outer \in {matchColonDigits(str)}})

\* the ways ^(.+?)\s+\( can match a prefix of content: <<i, j>> with group 1 the
\* first i code units, the white space up to j and the parenthesis at j + 1
ParenSplits(content) ==
  LET opened == {j \in 2..(Len(content) - 1) :
                   content[j + 1] = 40 /\ content[j] \in WhiteSpace}
  IN  UNION {{<<i, j>> : i \in {h \in 1..(j - 1) :
                                  /\ \A k \in (h + 1)..j : content[k] \in WhiteSpace
                                  /\ \A k \in 1..h : content[k] \notin LineTerminator}} :
             j \in opened}

\* what follows the opening parenthesis, without the closing one that ends content
InParens(content, ij) == SubSeq(content, ij[2] + 2, Len(content) - 1)

\* the matches of ^(.+?)\s+\((.+):(\d+):(\d+)\)$ for every way to match its prefix
withParensWays(content) ==
  {way \in {[i |-> ij[1], tail |-> matchColonDigitsTwice(InParens(content, ij))] :
              ij \in ParenSplits(content)} :
     content[Len(content)] = 41 /\ way.tail.ok}

\* /^(.+?)\s+\((.+):(\d+):(\d+)\)$/ : group 1 is lazy, so the shortest prefix wins
withParens(content) ==
  Only({IF ways = {} THEN NoMatch
        ELSE Only({[ok |-> TRUE, fn |-> SubSeq(content, 1, way.i),
                    file |-> way.tail.head, line |-> way.tail.line,
                    column |-> way.tail.column] :
                   way \in {w \in ways : \A v \in ways : w.i <= v.i}}) :
        ways \in {withParensWays(content)}})

\* the matches of ^(.+?)\s+\((.+):(\d+)\)$ for every way to match its prefix
withParensNoColWays(content) ==
  {way \in {[i |-> ij[1], tail |-> matchColonDigits(InParens(content, ij))] :
              ij \in ParenSplits(content)} :
     content[Len(content)] = 41 /\ way.tail.ok}

\* /^(.+?)\s+\((.+):(\d+)\)$/
withParensNoCol(content) ==
  Only({IF ways = {} THEN NoMatch
        ELSE Only({[ok |-> TRUE, fn |-> SubSeq(content, 1, way.i),
                    file |-> way.tail.head, line |-> way.tail.digits] :
                   way \in {w \in ways : \A v \in ways : w.i <= v.i}}) :
        ways \in {withParensNoColWays(content)}})

\* ParsedStackFrame
Frame(functionName, fileName, lineNumber, columnNumber, isNative, isNodeModules, raw) ==
  [functionName |-> functionName, fileName |-> fileName, lineNumber |-> lineNumber,
   columnNumber |-> columnNumber, isNative |-> isNative,
   isNodeModules |-> isNodeModules, raw |-> raw]

\* content.replace(/\s*\(native\)/, "") : the first "(native)" goes, with the white
\* space right before it
removeNative(content) ==
  LET starts == {p \in 1..Len(content) :
                   startsWith(SubSeq(content, p, Len(content)), s_nativeParen)}
  IN  IF starts = {} THEN content
      ELSE LET p == SetMin(starts)
               from == SetMin({q \in 1..p :
                                 \A k \in q..(p - 1) : content[k] \in WhiteSpace})
           IN  SubSeq(content, 1, from - 1)
                 \o SubSeq(content, p + Len(s_nativeParen), Len(content))

\* parseStackFrame from the test of the third pattern on
anonymousFrame(raw, content) ==
  Only({IF anonymousMatch.ok
        THEN Frame(s_anonymous, anonymousMatch.head,
                   Num(parseInt(anonymousMatch.line)),
                   Num(parseInt(anonymousMatch.column)), FALSE,
                   StringIncludes(anonymousMatch.head, s_node_modules), raw)
        ELSE Only({IF anonymousNoColMatch.ok
                   THEN Frame(s_anonymous, anonymousNoColMatch.head,
                              Num(parseInt(anonymousNoColMatch.digits)), Null, FALSE,
                              StringIncludes(anonymousNoColMatch.head, s_node_modules),
                              raw)
                   ELSE Frame(content, s_unknown, Null, Null, FALSE, FALSE, raw) :
                   anonymousNoColMatch \in {matchColonDigits(content)}}) :
        anonymousMatch \in {matchColonDigitsTwice(content)}})

\* parseStackFrame from the test of the first pattern on
parensFrame(raw, content) ==
  Only({IF withParensMatch.ok
        THEN Frame(trim(withParensMatch.fn), withParensMatch.file,
                   Num(parseInt(withParensMatch.line)),
                   Num(parseInt(withParensMatch.column)), FALSE,
                   StringIncludes(withParensMatch.file, s_node_modules), raw)
        ELSE Only({IF withParensNoColMatch.ok
                   THEN Frame(trim(withParensNoColMatch.fn), withParensNoColMatch.file,
                              Num(parseInt(withParensNoColMatch.line)), Null, FALSE,
                              StringIncludes(withParensNoColMatch.file, s_node_modules),
                              raw)
                   ELSE anonymousFrame(raw, content) :
                   withParensNoColMatch \in {withParensNoCol(content)}}) :
        withParensMatch \in {withParens(content)}})

\* parseStackFrame for a line that starts with "at ": its native branch, or the patterns
contentFrame(raw, content) ==
  IF StringIncludes(content, s_nativeParen) \/ content = s_native
  THEN Only({Frame(IF Len(named) > 0 THEN named ELSE s_angleNative,
                   s_native, Null, Null, TRUE, FALSE, raw) :
             named \in {trim(removeNative(content))}})
  ELSE parensFrame(raw, content)

\* parseStackFrame on the trimmed line
trimmedFrame(trimmed) ==
  IF ~startsWith(trimmed, s_at) THEN Null
  ELSE Only({contentFrame(trimmed, content) : content \in {slice(trimmed, 3)}})

(* src/core/error-parser.ts: parseStackFrame *)
parseStackFrame(line) == Only({trimmedFrame(trimmed) : trimmed \in {trim(line)}})

\* an Error: its name, message, stack (a string or undefined) and cause (any value)
Error(name, message, stack, cause) ==
  [t |-> "error", name |-> name, message |-> message, stack |-> stack, cause |-> cause]

\* value instanceof Error
InstanceOfError(value) == value.t = "error"

\* the loop of parseError over the lines: a frame counts, a null does not
RECURSIVE parseLines(_, _, _)
parseLines(lines, count, maxLines) ==
  IF lines = <<>> \/ count >= maxLines THEN <<>>
  ELSE Only({IF frame # Null
             THEN <<frame>> \o parseLines(Tail(lines), count + 1, maxLines)
             ELSE parseLines(Tail(lines), count, maxLines) :
             frame \in {parseStackFrame(Head(lines))}})

\* the stack of one level of parseError
parseStack(error, maxLines) ==
  IF Truthy(error.stack)
  THEN parseLines(Tail(split(error.stack.s, 10)), 0, maxLines)
  ELSE <<>>

\* parseError handing the cause only the lines the levels above it left
RECURSIVE parseError_sharedBudget(_, _)
parseError_sharedBudget(error, maxLines) ==
  LET stack == parseStack(error, maxLines)
  IN  IF InstanceOfError(error.cause)
      THEN [name |-> error.name, message |-> error.message, stack |-> stack,
            cause |-> parseError_sharedBudget(error.cause, maxLines - Len(stack))]
      ELSE [name |-> error.name, message |-> error.message, stack |-> stack]

\* parseError stopping one frame late: count > maxLines
RECURSIVE parseError_oneMore(_, _)
parseError_oneMore(error, maxLines) ==
  LET stack == parseStack(error, maxLines + 1)
  IN  IF InstanceOfError(error.cause)
      THEN [name |-> error.name, message |-> error.message, stack |-> stack,
            cause |-> parseError_oneMore(error.cause, maxLines)]
      ELSE [name |-> error.name, message |-> error.message, stack |-> stack]

(* src/core/error-parser.ts: parseError *)
RECURSIVE parseError(_, _)
parseError(error, maxLines) ==
  LET stack == parseStack(error, maxLines)
  IN  IF InstanceOfError(error.cause)
      THEN [name |-> error.name, message |-> error.message, stack |-> stack,
            cause |-> parseError(error.cause, maxLines)]
      ELSE [name |-> error.name, message |-> error.message, stack |-> stack]

\* parsed.cause: undefined when the level has none
CauseOf(parsed) == IF "cause" \in DOMAIN parsed THEN parsed.cause ELSE Undefined

\* a non-negative integer in a template literal: its decimal digits
RECURSIVE numberToString(_)
numberToString(n) ==
  IF n < 10 THEN <<48 + n>> ELSE numberToString(n \div 10) \o <<48 + (n % 10)>>

\* Array.prototype.join(separator)
RECURSIVE join(_, _)
join(lines, separator) ==
  IF lines = <<>> THEN <<>>
  ELSE IF Len(lines) = 1 THEN lines[1]
  ELSE lines[1] \o separator \o join(Tail(lines), separator)

\* the line formatParsedError makes for one frame
frameLine(frame) ==
  <<32, 32, 32, 32, 97, 116, 32>> \o frame.functionName
    \o (IF frame.fileName # s_unknown /\ frame.fileName # s_native
        THEN <<32, 40>> \o frame.fileName
               \o (IF frame.lineNumber # Null
                   THEN <<58>> \o numberToString(frame.lineNumber.n)
                          \o (IF frame.columnNumber # Null
                              THEN <<58>> \o numberToString(frame.columnNumber.n)
                              ELSE <<>>)
                   ELSE <<>>)
               \o <<41>>
        ELSE <<>>)

\* the frames formatParsedError does not skip
RECURSIVE shownFrames(_, _)
shownFrames(stack, includeNodeModules) ==
  IF stack = <<>> THEN <<>>
  ELSE IF ~includeNodeModules /\ Head(stack).isNodeModules
  THEN shownFrames(Tail(stack), includeNodeModules)
  ELSE <<Head(stack)>> \o shownFrames(Tail(stack), includeNodeModules)

\* formatParsedError leaving the cause out
formatParsedError_noCause(parsed, includeNodeModules) ==
  LET shown == shownFrames(parsed.stack, includeNodeModules)
  IN  join(<<parsed.name \o <<58, 32>> \o parsed.message>>
             \o [i \in 1..Len(shown) |-> frameLine(shown[i])], <<10>>)

(* src/core/error-parser.ts: formatParsedError *)
RECURSIVE formatParsedError(_, _)
formatParsedError(parsed, includeNodeModules) ==
  LET shown == shownFrames(parsed.stack, includeNodeModules)
      lines == <<parsed.name \o <<58, 32>> \o parsed.message>>
                 \o [i \in 1..Len(shown) |-> frameLine(shown[i])]
  IN  IF CauseOf(parsed) # Undefined
      THEN join(lines \o <<<<32, 32, 67, 97, 117, 115, 101, 100, 32, 98, 121, 58, 32>>
                             \o formatParsedError(parsed.cause, includeNodeModules)>>,
                <<10>>)
      ELSE join(lines, <<10>>)

\* Array.prototype.filter((f) => !f.isNodeModules)
notNodeModules(stack) == shownFrames(stack, FALSE)

\* createErrorParser handing out every frame as parsedStack
createErrorParser_noFilter(config, error) ==
  IF ~config.errorStackEnabled
  THEN [name |-> error.name, message |-> error.message, stack |-> error.stack]
  ELSE Only({[name |-> parsed.name, message |-> parsed.message,
              parsedStack |-> parsed.stack,
              fullStack |-> parsed.stack, cause |-> CauseOf(parsed),
              formatted |-> formatParsedError(parsed, FALSE)] :
             parsed \in {parseError(error, config.errorStackLines)}})

(* src/core/error-parser.ts: createErrorParser, applied to an error *)
createErrorParser(config, error) ==
  IF ~config.errorStackEnabled
  THEN [name |-> error.name, message |-> error.message, stack |-> error.stack]
  ELSE Only({[name |-> parsed.name, message |-> parsed.message,
              parsedStack |-> notNodeModules(parsed.stack),
              fullStack |-> parsed.stack, cause |-> CauseOf(parsed),
              formatted |-> formatParsedError(parsed, FALSE)] :
             parsed \in {parseError(error, config.errorStackLines)}})

(***************************************************************************)
(* The error parser applied to errors with stacks of every frame shape,    *)
(* with and without a cause.                                               *)
(***************************************************************************)
l_header == <<69, 114, 114, 111, 114, 58, 32, 98, 111, 111, 109>>   \* the first line of a stack: the message line
l_app == <<32, 32, 32, 32, 97, 116, 32, 102, 110, 32, 40, 47, 97, 112, 112, 47, 115, 114, 99, 47, 97, 46, 116, 115, 58, 49, 48, 58, 53, 41>>
l_lib == <<32, 32, 32, 32, 97, 116, 32, 79, 98, 106, 101, 99, 116, 46, 60, 97, 110, 111, 110, 121, 109, 111, 117, 115, 62, 32, 40, 47, 97, 112, 112, 47, 110, 111, 100, 101, 95, 109, 111, 100, 117, 108, 101, 115, 47, 120, 47, 105, 46, 106, 115, 58, 55, 58, 49, 41>>
l_anonymous == <<32, 32, 32, 32, 97, 116, 32, 47, 97, 112, 112, 47, 98, 46, 106, 115, 58, 51, 58, 52>>
l_noCol == <<32, 32, 32, 32, 97, 116, 32, 114, 117, 110, 32, 40, 47, 97, 112, 112, 47, 99, 46, 106, 115, 58, 49, 50, 41>>
l_anonymousNoCol == <<9, 97, 116, 32, 47, 97, 112, 112, 47, 100, 46, 106, 115, 58, 56>>
l_native == <<32, 32, 32, 32, 97, 116, 32, 65, 114, 114, 97, 121, 46, 109, 97, 112, 32, 40, 110, 97, 116, 105, 118, 101, 41>>
l_odd == <<32, 32, 32, 32, 97, 116, 32, 115, 111, 109, 101, 116, 104, 105, 110, 103, 32, 111, 100, 100>>
l_note == <<32, 32, 32, 32, 40, 105, 110, 116, 101, 114, 110, 97, 108, 32, 110, 111, 116, 101, 41>>
l_atOnly == <<32, 32, 97, 116, 32, 32>>
n_Error == <<69, 114, 114, 111, 114>>
n_TypeError == <<84, 121, 112, 101, 69, 114, 114, 111, 114>>
g_boom == <<98, 111, 111, 109>>
g_inner == <<105, 110, 110, 101, 114>>
g_root == <<114, 111, 111, 116>>
g_why == <<119, 104, 121>>

\* the text of a stack: its lines joined by "\n"
StackOf(lines) == Str(join(lines, <<10>>))

Stacks ==
  {Undefined, Str(<<>>), StackOf(<<l_header>>),
   StackOf(<<l_header, l_app, l_lib, l_anonymous>>),
   StackOf(<<l_header, l_note, l_app, <<>>, l_lib, l_noCol, l_atOnly, l_native, l_odd>>),
   StackOf(<<l_header, l_lib, l_anonymousNoCol, l_lib>>)}

\* errors without a cause, or with one that is not an error
LeafErrors ==
  {Error(n_Error, g_root, stack, Undefined) : stack \in Stacks}
    \cup {Error(n_Error, g_root, StackOf(<<l_header, l_app, l_lib, l_anonymous>>), cause) :
            cause \in {Str(g_why), Null}}

\* errors caused by an error
CausedErrors ==
  {Error(n_TypeError, g_inner, stack, cause) :
     stack \in {Undefined, StackOf(<<l_header, l_lib, l_anonymousNoCol, l_lib>>)},
     cause \in {Error(n_Error, g_root, StackOf(<<l_header, l_app, l_lib, l_anonymous>>),
                      cause) : cause \in {Undefined, Str(g_why)}}}

\* chains of three errors
ChainedErrors ==
  {Error(n_Error, g_boom, StackOf(<<l_header, l_noCol, l_note, l_app, l_odd>>), cause) :
     cause \in {e \in CausedErrors : e.stack # Undefined}}

Errors == LeafErrors \cup CausedErrors \cup ChainedErrors

\* maxLines, errorStackLines: the default 10, small counts, and counts that allow nothing
LineCounts == {-1, 0, 1, 2, 3, 10}

ErrorParserConfigs ==
  {[errorStackEnabled |-> enabled, errorStackLines |-> n] :
     enabled \in BOOLEAN, n \in {0, 1, 2, 10}}

\* an error to handle, and the arguments and the configuration to handle it with
ErrorInputs ==
  {[op |-> "input", error |-> error, maxLines |-> maxLines,
    includeNodeModules |-> includeNodeModules, config |-> config] :
     error \in Errors, maxLines \in LineCounts, includeNodeModules \in BOOLEAN,
     config \in ErrorParserConfigs}

InitErrorParser ==
  /\ loggers = <<>>
  /\ made = <<>>
  /\ sink = <<>>
  /\ writes = <<>>
  /\ sites = <<>>
  /\ stats = ZeroStats
  /\ recorded = <<>>
  /\ seen = NoCall
  /\ last \in ErrorInputs

\* parseError(error, maxLines)
ParseError ==
  /\ last.op = "input"
  /\ last' = [op |-> "parseError", error |-> last.error, maxLines |-> last.maxLines,
              returned |-> parseError(last.error, last.maxLines)]
  /\ UNCHANGED <<loggers, sink, writes, sites, stats, recorded, seen, made>>

\* formatParsedError(parseError(error, maxLines), includeNodeModules)
FormatParsedError ==
  /\ last.op = "input"
  /\ \E parsed \in {parseError(last.error, last.maxLines)} :
       last' = [op |-> "formatParsedError", parsed |-> parsed,
                includeNodeModules |-> last.includeNodeModules,
                returned |-> formatParsedError(parsed, last.includeNodeModules)]
  /\ UNCHANGED <<loggers, sink, writes, sites, stats, recorded, seen, made>>

\* createErrorParser(config)(error)
ErrorParser ==
  /\ last.op = "input"
  /\ last' = [op |-> "errorParser", config |-> last.config, error |-> last.error,
              returned |-> createErrorParser(last.config, last.error)]
  /\ UNCHANGED <<loggers, sink, writes, sites, stats, recorded, seen, made>>

NextErrorParser ==
  \/ ParseError
  \/ FormatParsedError
  \/ ErrorParser

SpecErrorParser == InitErrorParser /\ [][NextErrorParser]_vars

(***************************************************************************)
(* Claims about the error parser.                                          *)
(***************************************************************************)
\* a line of a stack that is a frame: white space, then "at " and something after it
IsFrameLine(line) ==
  \E i \in 1..(Len(line) - 3) :
    /\ \A k \in 1..(i - 1) : line[k] \in WhiteSpace
    /\ line[i] = 97 /\ line[i + 1] = 116 /\ line[i + 2] = 32
    /\ \E k \in (i + 3)..Len(line) : line[k] \notin WhiteSpace

\* the frame lines of an error's stack text after its first line, in order
StackFrameLines(error) ==
  IF error.stack.t = "string" /\ error.stack.s # <<>>
  THEN SelectSeq(Tail(split(error.stack.s, 10)), IsFrameLine)
  ELSE <<>>

\* the frame was parsed from this line: its raw text is the line without the white
\* space around it
FrameIsOf(frame, line) ==
  \E a \in 1..Len(line), b \in 1..Len(line) :
    /\ SubSeq(line, a, b) = frame.raw
    /\ line[a] \notin WhiteSpace /\ line[b] \notin WhiteSpace
    /\ \A k \in (1..(a - 1)) \cup ((b + 1)..Len(line)) : line[k] \in WhiteSpace

\* how many frames maxLines lets through of so many frame lines
Budget(maxLines, available) ==
  IF maxLines <= 0 THEN 0 ELSE IF maxLines < available THEN maxLines ELSE available

\* C21: parsing an error whose cause chain is acyclic gives one level per error of the
\* chain, in order, each with the name and message of its error and with a stack that
\* maxLines limits for that level alone; a cause that is not an error gives no level
RECURSIVE ChainMatches(_, _, _)
ChainMatches(error, parsed, maxLines) ==
  /\ parsed.name = error.name
  /\ parsed.message = error.message
  /\ Len(parsed.stack) = Budget(maxLines, Len(StackFrameLines(error)))
  /\ IF error.cause.t = "error"
     THEN "cause" \in DOMAIN parsed /\ ChainMatches(error.cause, parsed.cause, maxLines)
     ELSE "cause" \notin DOMAIN parsed

C21_CauseChainParsed ==
  last.op = "parseError" => ChainMatches(last.error, last.returned, last.maxLines)

\* a chain of two errors that ends in a cause that is not an error, each error with
\* more frame lines than maxLines allows
C21_Witness ==
  /\ last.op = "parseError"
  /\ last.maxLines = 2
  /\ last.error.cause.t = "error"
  /\ last.error.cause.cause.t = "string"
  /\ Len(StackFrameLines(last.error)) > 2
  /\ Len(StackFrameLines(last.error.cause)) > 2
  /\ Len(last.returned.stack) = 2
  /\ Len(last.returned.cause.stack) = 2
  /\ "cause" \notin DOMAIN last.returned.cause

\* the frames formatParsedError is to show
Visible(stack, includeNodeModules) ==
  SelectSeq(stack, LAMBDA frame : includeNodeModules \/ ~frame.isNodeModules)

\* the lines render the parsed error: the header, a line per visible frame in order,
\* and then nothing, or "  Caused by: " with the rendering of the cause
RECURSIVE Renders(_, _, _)
Renders(parsed, lines, includeNodeModules) ==
  LET shown == Visible(parsed.stack, includeNodeModules)
      n == Len(shown)
  IN  /\ Len(lines) >= 1 + n
      /\ lines[1] = parsed.name \o <<58, 32>> \o parsed.message
      /\ \A k \in 1..n :
           startsWith(lines[1 + k],
                      <<32, 32, 32, 32, 97, 116, 32>> \o shown[k].functionName)
      /\ IF "cause" \in DOMAIN parsed
         THEN /\ Len(lines) >= 2 + n
              /\ startsWith(lines[2 + n], <<32, 32, 67, 97, 117, 115, 101, 100, 32, 98, 121, 58, 32>>)
              /\ Renders(parsed.cause,
                         <<slice(lines[2 + n], 13)>> \o SubSeq(lines, 3 + n, Len(lines)),
                         includeNodeModules)
         ELSE Len(lines) = 1 + n

\* C22: formatParsedError renders the header "{name}: {message}", then one line per
\* stack frame in order, leaving out the frames flagged isNodeModules unless
\* includeNodeModules is set, and ends with a "Caused by:" section that holds the
\* cause formatted the same way
C22_FormattedAsHeaderFramesCause ==
  last.op = "formatParsedError"
    => Renders(last.parsed, split(last.returned, 10), last.includeNodeModules)

\* a parsed error with a library frame left out, and a cause with frames of its own
C22_Witness ==
  /\ last.op = "formatParsedError"
  /\ ~last.includeNodeModules
  /\ \E k \in 1..Len(last.parsed.stack) : last.parsed.stack[k].isNodeModules
  /\ \E k \in 1..Len(last.parsed.stack) : ~last.parsed.stack[k].isNodeModules
  /\ "cause" \in DOMAIN last.parsed
  /\ last.parsed.cause.stack # <<>>
  /\ StringIncludes(last.returned, <<10, 32, 32, 67, 97, 117, 115, 101, 100, 32, 98, 121, 58, 32, 69, 114, 114, 111, 114, 58, 32, 114, 111, 111, 116, 10, 32, 32, 32, 32, 97, 116, 32, 102, 110, 32, 40>>)
  /\ ~StringIncludes(last.returned, s_node_modules)

\* C23: with stack parsing disabled the parser of createErrorParser gives only name,
\* message and stack, the raw stack text; enabled, its fullStack has at most
\* errorStackLines frames and its parsedStack is the frames of fullStack that are not
\* library frames, in the same order
C23_ParsedStackIsFilteredFullStack ==
  last.op = "errorParser"
    => IF ~last.config.errorStackEnabled
       THEN /\ DOMAIN last.returned = {"name", "message", "stack"}
            /\ last.returned.name = last.error.name
            /\ last.returned.message = last.error.message
            /\ last.returned.stack = last.error.stack
       ELSE /\ "stack" \notin DOMAIN last.returned
            /\ Len(last.returned.fullStack) <= last.config.errorStackLines
            /\ last.returned.parsedStack
                 = SelectSeq(last.returned.fullStack, LAMBDA frame : ~frame.isNodeModules)

\* the parser enabled, a fullStack that errorStackLines cut short and a parsedStack
\* that is shorter still
C23_Witness ==
  /\ last.op = "errorParser"
  /\ last.config.errorStackEnabled
  /\ Len(StackFrameLines(last.error)) > last.config.errorStackLines
  /\ Len(last.returned.fullStack) = last.config.errorStackLines
  /\ last.returned.parsedStack # <<>>
  /\ Len(last.returned.parsedStack) < Len(last.returned.fullStack)

\* C26: parseError returns at most maxLines frames, in the order of the stack text
\* after its first line; a line that is not a frame line is skipped and does not
\* count, so the frames are those of the first maxLines frame lines, and none when
\* maxLines <= 0 or the error has no stack
C26_FirstMaxLinesFrames ==
  last.op = "parseError"
    => LET frameLines == StackFrameLines(last.error)
           stack == last.returned.stack
       IN  /\ last.maxLines > 0 => Len(stack) <= last.maxLines
           /\ (last.maxLines <= 0 \/ last.error.stack = Undefined) => stack = <<>>
           /\ Len(stack) = Budget(last.maxLines, Len(frameLines))
           /\ \A k \in 1..Len(stack) : FrameIsOf(stack[k], frameLines[k])

\* a stack whose frame lines lie between other lines, three of them let through
C26_Witness ==
  /\ last.op = "parseError"
  /\ last.maxLines = 3
  /\ last.error.stack.t = "string"
  /\ LET lines == Tail(split(last.error.stack.s, 10))
     IN  /\ Len(lines) > 3
         /\ ~IsFrameLine(lines[1])
         /\ IsFrameLine(lines[2])
         /\ ~IsFrameLine(lines[3])
  /\ Len(StackFrameLines(last.error)) > 3
  /\ Len(last.returned.stack) = 3

(***************************************************************************)
(* src/infra/transports.ts: createTransports.                              *)
(***************************************************************************)
u_empty == <<>>   \* ""
u_https == <<104, 116, 116, 112, 115, 58, 47, 47, 108, 111, 103, 115, 46, 101, 120, 97, 109, 112, 108, 101, 46, 99, 111, 109, 47, 97, 112, 105>>
u_port == <<104, 116, 116, 112, 58, 47, 47, 108, 111, 99, 97, 108, 104, 111, 115, 116, 58, 56, 48, 56, 48, 47, 108, 111, 103, 115, 63, 115, 114, 99, 61, 97, 112, 112>>
u_defaultPort == <<104, 116, 116, 112, 115, 58, 47, 47, 108, 111, 103, 115, 46, 101, 120, 97, 109, 112, 108, 101, 46, 99, 111, 109, 58, 52, 52, 51, 47>>
u_notAUrl == <<110, 111, 116, 32, 97, 32, 117, 114, 108>>
p_https == <<104, 116, 116, 112, 115, 58>>
p_filePath == <<46, 47, 108, 111, 103, 115, 47, 97, 112, 112, 46, 108, 111, 103>>
a_key == <<107, 101, 121>>

\* the first index from `from` on where str has one of the code units, or Len(str) + 1
IndexOfAny(str, from, units) ==
  SetMin({i \in from..Len(str) : str[i] \in units} \cup {Len(str) + 1})

\* a URL scheme: a letter, then letters, digits, "+", "-" and "."
IsScheme(str) ==
  /\ str # <<>>
  /\ toLowerCase(<<str[1]>>)[1] \in 97..122
  /\ \A i \in 1..Len(str) :
       \/ toLowerCase(<<str[i]>>)[1] \in 97..122
       \/ IsDigit(str[i])
       \/ str[i] \in {43, 45, 46}

\* the port a scheme has when the URL names none
DefaultPort(protocol) == IF protocol = p_https THEN 443 ELSE 80

\* the parts of scheme://host[:port][/path][?search]
URLParts(input, colon) ==
  LET hostFrom == colon + 3
      hostEnd == IndexOfAny(input, hostFrom, {47, 63, 35})
      authority == SubSeq(input, hostFrom, hostEnd - 1)
      portColon == {i \in 1..Len(authority) :
                      /\ authority[i] = 58
                      /\ \A k \in (i + 1)..Len(authority) : IsDigit(authority[k])}
      hostname == IF portColon = {} THEN authority
                  ELSE SubSeq(authority, 1, SetMin(portColon) - 1)
      digits == IF portColon = {} THEN <<>>
                ELSE SubSeq(authority, SetMin(portColon) + 1, Len(authority))
      protocol == toLowerCase(SubSeq(input, 1, colon))
      pathEnd == IndexOfAny(input, hostEnd, {63, 35})
      searchEnd == IndexOfAny(input, pathEnd, {35})
      path == SubSeq(input, hostEnd, pathEnd - 1)
      search == SubSeq(input, pathEnd, searchEnd - 1)
  IN  [ok |-> SubSeq(input, colon + 1, colon + 2) = <<47, 47>> /\ hostname # <<>>,
       protocol |-> protocol,
       hostname |-> toLowerCase(hostname),
       port |-> IF digits = <<>> \/ parseInt(digits) = DefaultPort(protocol)
                THEN <<>> ELSE numberToString(parseInt(digits)),
       pathname |-> IF path = <<>> THEN <<47>> ELSE path,
       search |-> IF Len(search) <= 1 THEN <<>> ELSE search]

\* new URL(input) for an http or https address; ok is FALSE where it throws
URL(input) ==
  LET colon == IndexOfAny(input, 1, {58})
  IN  IF colon > Len(input) \/ ~IsScheme(SubSeq(input, 1, colon - 1))
      THEN [ok |-> FALSE]
      ELSE Only({parts : parts \in {URLParts(input, colon)}})

\* new winston.transports.Console(...)
ConsoleTransport(config, nodeEnv) ==
  [name |-> "Console", level |-> config.level,
   format |-> IF nodeEnv = "development" THEN "colorize+simple" ELSE "json"]

\* new DailyRotateFile(...)
FileTransport(config) ==
  [name |-> "DailyRotateFile", level |-> config.level, filename |-> config.filePath,
   format |-> "json"]

\* new winston.transports.Http(...)
HttpTransport(config, url) ==
  [name |-> "Http", level |-> config.level, format |-> "json",
   host |-> url.hostname,
   port |-> IF url.port # <<>> /\ parseInt(url.port) # 0
            THEN parseInt(url.port) ELSE DefaultPort(url.protocol),
   path |-> url.pathname \o url.search,
   ssl |-> url.protocol = p_https,
   authorization |-> <<65, 112, 105, 45, 84, 111, 107, 101, 110, 32>> \o config.httpApiKey]

(* src/infra/transports.ts: createTransports *)
createTransports(config, nodeEnv) ==
  LET url == IF config.http /\ config.httpUrl # <<>> THEN URL(config.httpUrl)
             ELSE [ok |-> TRUE]
  IN  IF ~url.ok THEN [threw |-> "TypeError"]
      ELSE [threw |-> "",
            transports |->
              (IF config.console THEN <<ConsoleTransport(config, nodeEnv)>> ELSE <<>>)
                \o (IF config.file THEN <<FileTransport(config)>> ELSE <<>>)
                \o (IF config.http /\ config.httpUrl # <<>>
                    THEN <<HttpTransport(config, url)>> ELSE <<>>)]

TransportConfigs ==
  {[level |-> level, console |-> console, file |-> file, filePath |-> p_filePath,
    http |-> http, httpUrl |-> httpUrl, httpApiKey |-> a_key] :
     level \in {"info", "debug"}, console \in BOOLEAN, file \in BOOLEAN,
     http \in BOOLEAN, httpUrl \in {u_empty, u_https, u_port, u_defaultPort, u_notAUrl}}

InitTransports ==
  /\ loggers = <<>>
  /\ made = <<>>
  /\ sink = <<>>
  /\ writes = <<>>
  /\ sites = <<>>
  /\ stats = ZeroStats
  /\ recorded = <<>>
  /\ seen = NoCall
  /\ last \in {[op |-> "input", config |-> config, nodeEnv |-> nodeEnv] :
                 config \in TransportConfigs,
                 nodeEnv \in {"development", "production"}}

\* createTransports(config)
CreateTransports ==
  /\ last.op = "input"
  /\ last' = [op |-> "createTransports", config |-> last.config,
              returned |-> createTransports(last.config, last.nodeEnv)]
  /\ UNCHANGED <<loggers, sink, writes, sites, stats, recorded, seen, made>>

NextTransports == CreateTransports

SpecTransports == InitTransports /\ [][NextTransports]_vars

\* the sinks a configuration enables: console, file, and http with a URL
EnabledSinks(config) ==
  {s \in {"Console", "DailyRotateFile", "Http"} :
     \/ s = "Console" /\ config.console
     \/ s = "DailyRotateFile" /\ config.file
     \/ s = "Http" /\ config.http /\ config.httpUrl # <<>>}

\* C24: createTransports never returns an empty list: with every sink disabled, or
\* http enabled with an empty URL and nothing else, it returns exactly one silent
\* fallback transport; otherwise exactly one transport per enabled sink
C24_NeverEmpty ==
  (last.op = "createTransports" /\ last.returned.threw = "")
    => LET transports == last.returned.transports
       IN  /\ transports # <<>>
           /\ IF EnabledSinks(last.config) = {}
              THEN /\ Len(transports) = 1
                   /\ "silent" \in DOMAIN transports[1]
                   /\ transports[1].silent
              ELSE /\ Len(transports) = Cardinality(EnabledSinks(last.config))
                   /\ {transports[i].name : i \in 1..Len(transports)}
                        = EnabledSinks(last.config)

\* one transport per enabled sink whenever a sink is enabled: the part that holds
C24_OnePerEnabledSink ==
  (last.op = "createTransports" /\ last.returned.threw = "")
    => LET transports == last.returned.transports
       IN  /\ Len(transports) = Cardinality(EnabledSinks(last.config))
           /\ {transports[i].name : i \in 1..Len(transports)} = EnabledSinks(last.config)

\* every sink disabled, and an empty list returned
C24_EmptyReturned ==
  /\ last.op = "createTransports"
  /\ ~last.config.console /\ ~last.config.file /\ ~last.config.http
  /\ last.returned.threw = ""
  /\ last.returned.transports = <<>>

(***************************************************************************)
(* Claims about the hash that decides sampling.                            *)
(***************************************************************************)
\* hash * 31 + char modulo 2^32, on the four bytes of hash, lowest first
MulAdd31(bytes, char) ==
  LET t0 == bytes[1] * 31 + char
      t1 == bytes[2] * 31 + (t0 \div 256)
      t2 == bytes[3] * 31 + (t1 \div 256)
      t3 == bytes[4] * 31 + (t2 \div 256)
  IN  <<t0 % 256, t1 % 256, t2 % 256, t3 % 256>>

\* the rolling hash of the code units from i on, started from bytes
RECURSIVE RollingBytes(_, _, _)
RollingBytes(str, i, bytes) ==
  IF i > Len(str) THEN bytes
  ELSE Only({RollingBytes(str, i + 1, next) : next \in {MulAdd31(bytes, str[i])}})

\* h mod 1000 for h the magnitude of the hash read as a signed 32-bit integer
\* (2^32 mod 1000 = 296)
Bucket(message) ==
  Only({LET unsigned == ((((((b[4] % 1000) * 256 + b[3]) % 1000) * 256 + b[2]) % 1000)
                            * 256 + b[1]) % 1000
        IN  IF b[4] < 128 THEN unsigned ELSE (1296 - unsigned) % 1000 :
        b \in {RollingBytes(message, 1, <<0, 0, 0, 0>>)}})

\* bucket < floor(rate * 1000), for a rate in sixteenths or not finite
BelowThreshold(bucket, rate) ==
  CASE rate.k = "finite" -> bucket < ((rate.q * 1000) \div 16)
    [] rate.k = "Infinity" -> TRUE
    [] OTHER -> FALSE

\* C25: for a sampled level with sampling enabled, a message is logged exactly when
\* h mod 1000 < floor(rate * 1000), h the magnitude of the rolling hash
\* hash * 31 + charCode wrapped to a signed 32-bit integer at each step; h is never
\* negative, so rate 1 logs every message and rate 0 none
C25_LoggedIffHashBelowThreshold ==
  (/\ last.op = "shouldSampleLog"
   /\ last.config.samplingEnabled
   /\ last.level \in {"debug", "verbose", "silly"})
    => /\ last.result.shouldLog
            <=> BelowThreshold(Bucket(last.message), last.config.samplingRate)
       /\ Bucket(last.message) \in 0..999
       /\ last.config.samplingRate = FromInt(1) => last.result.shouldLog
       /\ last.config.samplingRate = FromInt(0) => ~last.result.shouldLog

\* a message whose hash is negative before Math.abs, dropped at rate 0.5 because its
\* magnitude falls in the upper half
C25_Witness ==
  /\ last.op = "shouldSampleLog"
  /\ last.config.samplingEnabled
  /\ last.level = "debug"
  /\ last.config.samplingRate = Finite(8)
  /\ IsNegative32(hashLoop(last.message, 1, Int32Zero))
  /\ Bucket(last.message) >= 500
  /\ ~last.result.shouldLog

(***************************************************************************)
(* src/nest/service.ts: CorrelationIdInterceptor.                          *)
(***************************************************************************)
\* the code units JSON.stringify escapes in a string
NeedsEscape(c) == c < 32 \/ c = 34 \/ c = 92

HexDigit(n) == IF n < 10 THEN 48 + n ELSE 87 + n

\* the escape of one code unit: \" \\ \b \t \n \f \r, and \u00xx for the other controls
EscapeUnit(c) ==
  CASE c = 34 -> <<92, 34>>
    [] c = 92 -> <<92, 92>>
    [] c = 8 -> <<92, 98>>
    [] c = 9 -> <<92, 116>>
    [] c = 10 -> <<92, 110>>
    [] c = 12 -> <<92, 102>>
    [] c = 13 -> <<92, 114>>
    [] c < 32 -> <<92, 117, 48, 48, HexDigit(c \div 16), HexDigit(c % 16)>>
    [] OTHER -> <<c>>

RECURSIVE EscapeUnits(_)
EscapeUnits(str) ==
  IF str = <<>> THEN <<>> ELSE EscapeUnit(Head(str)) \o EscapeUnits(Tail(str))

\* a string as JSON text, for strings without lone surrogates
Quote(str) ==
  IF \A i \in 1..Len(str) : ~NeedsEscape(str[i]) THEN <<34>> \o str \o <<34>>
  ELSE <<34>> \o EscapeUnits(str) \o <<34>>

\* the keys of an object in the order JSON.stringify visits them. The objects of the
\* model do not record the order their keys were added in; the bodies it serializes
\* have one key in each object
KeysInOrder(o) ==
  CHOOSE keys \in [1..Cardinality(DOMAIN o) -> DOMAIN o] :
    {keys[i] : i \in 1..Cardinality(DOMAIN o)} = DOMAIN o

\* JSON.stringify(value) for values that do not contain themselves: Str(text), or
\* Undefined for undefined
RECURSIVE stringify(_)
stringify(value) ==
  CASE value.t = "string" -> Str(Quote(value.s))
    [] value.t = "number" ->
         Str(IF value.n < 0 THEN <<45>> \o numberToString(0 - value.n)
             ELSE numberToString(value.n))
    [] value.t = "boolean" -> Str(IF value.b THEN <<116, 114, 117, 101>> ELSE <<102, 97, 108, 115, 101>>)
    [] value.t = "null" -> Str(<<110, 117, 108, 108>>)
    [] value.t = "array" ->
         Str(<<91>>
               \o join([i \in 1..Len(value.a) |->
                          IF value.a[i] = Undefined THEN <<110, 117, 108, 108>>
                          ELSE stringify(value.a[i]).s], <<44>>)
               \o <<93>>)
    [] value.t = "object" ->
         LET keys == SelectSeq(KeysInOrder(value.o), LAMBDA k : value.o[k] # Undefined)
         IN  Str(<<123>>
                   \o join([i \in 1..Len(keys) |->
                              Quote(keys[i]) \o <<58>> \o stringify(value.o[keys[i]]).s],
                           <<44>>)
                   \o <<125>>)
    [] OTHER -> Undefined

\* serialized.slice(0, 500): how much of the serialized body the preview keeps
PreviewLength == 500

\* String.prototype.slice(0, end)
sliceTo(str, end) == SubSeq(str, 1, IF end < Len(str) THEN end ELSE Len(str))

\* the record processBody returns for a body that is too long
Truncated(serialized, bodyMaxSize, preview) ==
  ObjFrom({<<<<95, 116, 114, 117, 110, 99, 97, 116, 101, 100>>, Bool(TRUE)>>,
           <<<<95, 111, 114, 105, 103, 105, 110, 97, 108, 83, 105, 122, 101>>, Num(Len(serialized))>>,
           <<<<95, 109, 97, 120, 83, 105, 122, 101>>, Num(bodyMaxSize)>>,
           <<<<95, 112, 114, 101, 118, 105, 101, 119>>, Str(preview)>>})

\* processBody handing the body on without masking it
processBody_unmasked(config, body) ==
  IF body = Undefined \/ body = Null THEN Undefined
  ELSE Only({IF Len(serialized) > config.bodyMaxSize
             THEN Truncated(serialized, config.bodyMaxSize,
                            sliceTo(serialized, PreviewLength) \o <<46, 46, 46>>)
             ELSE body :
             serialized \in {stringify(body).s}})

(* CorrelationIdInterceptor.processBody *)
processBody(config, body) ==
  IF body = Undefined \/ body = Null THEN Undefined
  ELSE Only({Only({IF Len(serialized) > config.bodyMaxSize
                   THEN Truncated(serialized, config.bodyMaxSize,
                                  sliceTo(serialized, PreviewLength) \o <<46, 46, 46>>)
                   ELSE masked :
                   serialized \in {stringify(masked).s}}) :
             masked \in {createMasker(config, body)}})

\* String(value) for a value that is not an object
String(value) ==
  CASE value.t = "string" -> value.s
    [] value.t = "number" ->
         IF value.n < 0 THEN <<45>> \o numberToString(0 - value.n)
         ELSE numberToString(value.n)
    [] value.t = "boolean" -> IF value.b THEN <<116, 114, 117, 101>> ELSE <<102, 97, 108, 115, 101>>
    [] value.t = "null" -> <<110, 117, 108, 108>>
    [] value.t = "undefined" -> <<117, 110, 100, 101, 102, 105, 110, 101, 100>>
    [] OTHER -> <<91, 111, 98, 106, 101, 99, 116, 32, 79, 98, 106, 101, 99, 116, 93>>

\* a ParsedStackFrame as the object it is
FrameValue(frame) ==
  ObjFrom({<<<<102, 117, 110, 99, 116, 105, 111, 110, 78, 97, 109, 101>>, Str(frame.functionName)>>,
           <<<<102, 105, 108, 101, 78, 97, 109, 101>>, Str(frame.fileName)>>,
           <<<<108, 105, 110, 101, 78, 117, 109, 98, 101, 114>>, frame.lineNumber>>,
           <<<<99, 111, 108, 117, 109, 110, 78, 117, 109, 98, 101, 114>>, frame.columnNumber>>,
           <<<<105, 115, 78, 97, 116, 105, 118, 101>>, Bool(frame.isNative)>>,
           <<<<105, 115, 78, 111, 100, 101, 77, 111, 100, 117, 108, 101, 115>>, Bool(frame.isNodeModules)>>,
           <<<<114, 97, 119>>, Str(frame.raw)>>})

FramesValue(stack) == Arr([i \in 1..Len(stack) |-> FrameValue(stack[i])])

\* a ParsedError as the object it is
RECURSIVE ParsedValue(_)
ParsedValue(parsed) ==
  ObjFrom({<<<<110, 97, 109, 101>>, Str(parsed.name)>>, <<<<109, 101, 115, 115, 97, 103, 101>>, Str(parsed.message)>>,
           <<<<115, 116, 97, 99, 107>>, FramesValue(parsed.stack)>>}
            \cup (IF "cause" \in DOMAIN parsed
                  THEN {<<<<99, 97, 117, 115, 101>>, ParsedValue(parsed.cause)>>} ELSE {}))

\* what the parser of createErrorParser returns, as the object it is
ErrorParserValue(r) ==
  IF "stack" \in DOMAIN r
  THEN ObjFrom({<<<<110, 97, 109, 101>>, Str(r.name)>>, <<<<109, 101, 115, 115, 97, 103, 101>>, Str(r.message)>>,
                <<<<115, 116, 97, 99, 107>>, r.stack>>})
  ELSE ObjFrom({<<<<110, 97, 109, 101>>, Str(r.name)>>, <<<<109, 101, 115, 115, 97, 103, 101>>, Str(r.message)>>,
                <<<<112, 97, 114, 115, 101, 100, 83, 116, 97, 99, 107>>, FramesValue(r.parsedStack)>>,
                <<<<102, 117, 108, 108, 83, 116, 97, 99, 107>>, FramesValue(r.fullStack)>>,
                <<<<99, 97, 117, 115, 101>>, IF r.cause = Undefined THEN Undefined ELSE ParsedValue(r.cause)>>,
                <<<<102, 111, 114, 109, 97, 116, 116, 101, 100>>, Str(r.formatted)>>})

\* a call request.logger.info(message, meta), warn or error, as the interceptor made it
LoggerCall(level, message, meta) == [level |-> level, message |-> message, meta |-> meta]

\* { method, url, correlationId }
RequestMeta(scope) ==
  ObjFrom({<<<<109, 101, 116, 104, 111, 100>>, scope.method>>, <<<<117, 114, 108>>, scope.url>>,
           <<k_correlationId, scope.correlationId>>})

\* meta with one more key
With(meta, key, value) == SpreadInto(meta, ObjFrom({<<key, value>>}))

\* `${method} ${url}`
MethodAndUrl(scope) == scope.method.s \o <<32>> \o scope.url.s

\* the request with its x-request-id header set
SetHeader(headers, name, value) ==
  [n \in DOMAIN headers \cup {name} |-> IF n = name THEN value ELSE headers[n]]

\* intercept up to the point where it returns next.handle().pipe(tap(...)): the
\* request as it leaves, the child logger, and the call that logs the request
intercept(ls, config, request, uuid, startTime) ==
  LET correlationId == getCorrelationId(request.headers, uuid).result
      made1 == child(ls, 1, CorrelationMeta(correlationId.s))
      scope == [method |-> NullishCoalesce(request.method, Str(<<85, 78, 75, 78, 79, 87, 78>>)),
                url |-> NullishCoalesce(request.url, Str(<<47>>)),
                correlationId |-> correlationId, startTime |-> startTime]
      requestMeta == IF config.logRequestBody /\ Truthy(request.body)
                     THEN With(RequestMeta(scope), <<98, 111, 100, 121>>,
                               processBody(config, request.body))
                     ELSE RequestMeta(scope)
  IN  [loggers |-> made1.loggers,
       request |-> [request EXCEPT
                      !.phase = "handling",
                      !.headers = SetHeader(request.headers, CORRELATION_ID_HEADER,
                                            correlationId),
                      !.logger = made1.result,
                      !.responseHeaders =
                        IF request.setHeader
                        THEN SetHeader(request.responseHeaders, CORRELATION_ID_HEADER,
                                       correlationId)
                        ELSE request.responseHeaders,
                      !.scope = scope,
                      !.calls = <<LoggerCall("info",
                                             <<73, 110, 99, 111, 109, 105, 110, 103, 32, 114, 101, 113, 117, 101, 115, 116, 58, 32>> \o MethodAndUrl(scope),
                                             requestMeta)>>]]

\* the next callback of tap logging every response at info
tapNext_alwaysInfo(config, request, responseBody, now) ==
  LET scope == request.scope
      duration == now - scope.startTime
      timed == With(RequestMeta(scope), <<100, 117, 114, 97, 116, 105, 111, 110>>, Num(duration))
      responseMeta == IF config.logResponseBody /\ responseBody # Undefined
                      THEN With(timed, <<98, 111, 100, 121>>, processBody(config, responseBody))
                      ELSE timed
  IN  [request EXCEPT
         !.phase = "responded",
         !.delivered = [kind |-> "next", value |-> responseBody],
         !.calls = Append(@, LoggerCall("info",
                                        <<82, 101, 113, 117, 101, 115, 116, 32, 99, 111, 109, 112, 108, 101, 116, 101, 100, 58, 32>> \o MethodAndUrl(scope),
                                        responseMeta))]

\* the next callback of tap logging the completion and then the failure as well
tapNext_alsoFailed(config, request, responseBody, now) ==
  LET scope == request.scope
      duration == now - scope.startTime
      timed == With(RequestMeta(scope), <<100, 117, 114, 97, 116, 105, 111, 110>>, Num(duration))
  IN  [request EXCEPT
         !.phase = "responded",
         !.delivered = [kind |-> "next", value |-> responseBody],
         !.calls = @ \o <<LoggerCall("info",
                                     <<82, 101, 113, 117, 101, 115, 116, 32, 99, 111, 109, 112, 108, 101, 116, 101, 100, 58, 32>> \o MethodAndUrl(scope), timed),
                          LoggerCall("error",
                                     <<82, 101, 113, 117, 101, 115, 116, 32, 102, 97, 105, 108, 101, 100, 58, 32>> \o MethodAndUrl(scope), timed)>>]

(* intercept: the next callback of tap *)
tapNext(config, request, responseBody, now) ==
  LET scope == request.scope
      duration == now - scope.startTime
      isSlowRequest == config.perfEnabled /\ duration >= config.perfThreshold
      timed == With(RequestMeta(scope), <<100, 117, 114, 97, 116, 105, 111, 110>>, Num(duration))
      responseMeta == IF config.logResponseBody /\ responseBody # Undefined
                      THEN With(timed, <<98, 111, 100, 121>>, processBody(config, responseBody))
                      ELSE timed
  IN  [request EXCEPT
         !.phase = "responded",
         !.delivered = [kind |-> "next", value |-> responseBody],
         !.calls =
           Append(@,
                  IF isSlowRequest
                  THEN LoggerCall("warn",
                                  <<83, 108, 111, 119, 32, 114, 101, 113, 117, 101, 115, 116, 32, 100, 101, 116, 101, 99, 116, 101, 100, 58, 32>> \o MethodAndUrl(scope)
                                    \o <<32, 40>> \o String(Num(duration)) \o <<109, 115, 41>>,
                                  With(With(responseMeta, <<115, 108, 111, 119, 82, 101, 113, 117, 101, 115, 116>>, Bool(TRUE)),
                                       <<112, 101, 114, 102, 84, 104, 114, 101, 115, 104, 111, 108, 100>>, Num(config.perfThreshold)))
                  ELSE LoggerCall("info",
                                  <<82, 101, 113, 117, 101, 115, 116, 32, 99, 111, 109, 112, 108, 101, 116, 101, 100, 58, 32>> \o MethodAndUrl(scope),
                                  responseMeta))]

(* intercept: the error callback of tap *)
tapError(config, request, error, now) ==
  LET scope == request.scope
      duration == now - scope.startTime
      timed == With(RequestMeta(scope), <<100, 117, 114, 97, 116, 105, 111, 110>>, Num(duration))
      errorMeta == With(timed, <<101, 114, 114, 111, 114>>,
                        IF InstanceOfError(error)
                        THEN ErrorParserValue(createErrorParser(config, error))
                        ELSE Str(String(error)))
  IN  [request EXCEPT
         !.phase = "failed",
         !.delivered = [kind |-> "error", value |-> error],
         !.calls = Append(@, LoggerCall("error",
                                        <<82, 101, 113, 117, 101, 115, 116, 32, 102, 97, 105, 108, 101, 100, 58, 32>> \o MethodAndUrl(scope),
                                        errorMeta))]

(***************************************************************************)
(* SpecInterceptor: one request through the interceptor. The handler       *)
(* behind next.handle() yields one response or raises one error.           *)
(***************************************************************************)
b_long == [i \in 1..520 |-> 120]   \* "xxx...x", 520 code units
v_GET == <<71, 69, 84>>
v_users == <<47, 117, 115, 101, 114, 115>>
v_oops == <<111, 111, 112, 115>>

\* { user: { password: "s3cr3t" } }
bodySecret == ObjFrom({<<k_user, ObjFrom({<<k_password, Str(v_secret)>>})>>})

\* [{ password: "s3cr3t" }, "xxx...x"]
bodyLong == Arr(<<ObjFrom({<<k_password, Str(v_secret)>>}), Str(b_long)>>)

RequestBodies == {Undefined, Str(m_empty), bodySecret, bodyLong}
ResponseBodies == {Undefined, Null, bodySecret, bodyLong}

\* what the handler raises: an Error, or a value that is not one
Raised == {Error(n_Error, g_boom, StackOf(<<l_header, l_app, l_lib>>), Undefined),
           Str(v_oops)}

\* the headers of a request: none, the client's id in the lower-case form, in the
\* capitalized form, or in the capitalized form beside an empty lower-case one
RequestHeaders ==
  {h \in HeaderMaps :
     \/ DOMAIN h = {}
     \/ DOMAIN h = {CORRELATION_ID_HEADER} /\ h[CORRELATION_ID_HEADER] = Str(v_idLower)
     \/ DOMAIN h = {h_XRequestId} /\ h[h_XRequestId] = Str(v_idUpper)
     \/ /\ DOMAIN h = {CORRELATION_ID_HEADER, h_XRequestId}
        /\ h[CORRELATION_ID_HEADER] = Str(m_empty)
        /\ h[h_XRequestId] = Str(v_idUpper)}

\* a request as it reaches the interceptor, with the response it will be answered on
Requests ==
  {[phase |-> "arrived", received |-> headers, headers |-> headers,
    method |-> line[1], url |-> line[2],
    body |-> body, setHeader |-> setHeader, responseHeaders |-> <<>>, logger |-> 0,
    scope |-> NoCall, calls |-> <<>>, delivered |-> NoCall] :
     headers \in RequestHeaders,
     line \in {<<Str(v_GET), Str(v_users)>>, <<Undefined, Undefined>>},
     body \in RequestBodies, setHeader \in BOOLEAN}

\* Date.now() when the request arrives, and the milliseconds until the handler is done
StartTimes == {1000}
Durations == {99, 100, 250}

InterceptorConfigs ==
  {[samplingEnabled |-> FALSE, samplingRate |-> Finite(16),
    maskEnabled |-> maskEnabled, maskFields |-> <<>>, maskPattern |-> DEFAULT_MASK_PATTERN,
    logRequestBody |-> logBody[1], logResponseBody |-> logBody[2],
    bodyMaxSize |-> bodyMaxSize,
    perfEnabled |-> perfEnabled, perfThreshold |-> 100,
    errorStackEnabled |-> perfEnabled, errorStackLines |-> 10] :
     maskEnabled \in BOOLEAN,
     logBody \in {<<FALSE, FALSE>>, <<TRUE, FALSE>>, <<FALSE, TRUE>>},
     bodyMaxSize \in {20, 34, 1024}, perfEnabled \in BOOLEAN}

InitInterceptor ==
  \E config \in InterceptorConfigs, request \in Requests :
    /\ loggers = createLogger(<<>>, config, Undefined)
    /\ made = <<[parent |-> 0, meta |-> Undefined]>>
    /\ sink = <<>>
    /\ writes = <<>>
    /\ sites = <<request>>
    /\ stats = ZeroStats
    /\ recorded = <<>>
    /\ seen = NoCall
    /\ last = [op |-> "createLogger"]

\* the calls of the request's logger since `from`, as the pipeline hands them to the sink
RECURSIVE Logged(_, _, _)
Logged(logger, calls, snk) ==
  IF calls = <<>> THEN snk
  ELSE Logged(logger, Tail(calls),
              logWithMeta(logger, Head(calls).level, Head(calls).message,
                          Head(calls).meta, snk))

\* interceptor.intercept(context, next), up to its return
Intercept(uuid, startTime) ==
  /\ sites[1].phase = "arrived"
  /\ \E r \in {intercept(loggers, loggers[1].config, sites[1], uuid, startTime)} :
       /\ loggers' = r.loggers
       /\ sites' = <<r.request>>
       /\ made' = Append(made, [parent |-> 1,
                                meta |-> CorrelationMeta(r.request.scope.correlationId.s)])
       /\ sink' = Logged(r.loggers[r.request.logger], r.request.calls, <<>>)
       /\ writes' = accept(sink')
       /\ last' = [op |-> "intercept", uuid |-> uuid, request |-> sites[1]]
  /\ UNCHANGED <<stats, recorded, seen>>

\* the handler yields a response: the next callback runs and the response goes on
HandlerNext(responseBody, now) ==
  /\ sites[1].phase = "handling"
  /\ \E request \in {tapNext(loggers[1].config, sites[1], responseBody, now)} :
       /\ sites' = <<request>>
       /\ sink' = Logged(loggers[request.logger],
                         SubSeq(request.calls, Len(sites[1].calls) + 1,
                                Len(request.calls)), <<>>)
       /\ writes' = accept(sink')
       /\ last' = [op |-> "next", value |-> responseBody, now |-> now]
  /\ UNCHANGED <<loggers, made, stats, recorded, seen>>

\* the handler raises: the error callback runs and the error goes on
HandlerError(error, now) ==
  /\ sites[1].phase = "handling"
  /\ \E request \in {tapError(loggers[1].config, sites[1], error, now)} :
       /\ sites' = <<request>>
       /\ sink' = Logged(loggers[request.logger],
                         SubSeq(request.calls, Len(sites[1].calls) + 1,
                                Len(request.calls)), <<>>)
       /\ writes' = accept(sink')
       /\ last' = [op |-> "error", value |-> error, now |-> now]
  /\ UNCHANGED <<loggers, made, stats, recorded, seen>>

NextInterceptor ==
  \/ \E uuid \in uuidv4, startTime \in StartTimes : Intercept(uuid, startTime)
  \/ \E responseBody \in ResponseBodies, d \in Durations :
       HandlerNext(responseBody, sites[1].scope.startTime + d)
  \/ \E error \in Raised, d \in Durations :
       HandlerError(error, sites[1].scope.startTime + d)

SpecInterceptor == InitInterceptor /\ [][NextInterceptor]_vars

(***************************************************************************)
(* Claims about the interceptor.                                           *)
(***************************************************************************)
\* the id a client sent: a non-empty string in the lower-case form of the header, or
\* else in the capitalized form
ClientIds(headers) ==
  IF CORRELATION_ID_HEADER \in DOMAIN headers
     /\ headers[CORRELATION_ID_HEADER].t = "string"
     /\ headers[CORRELATION_ID_HEADER].s # <<>>
  THEN {headers[CORRELATION_ID_HEADER]}
  ELSE IF h_XRequestId \in DOMAIN headers
          /\ headers[h_XRequestId].t = "string"
          /\ headers[h_XRequestId].s # <<>>
  THEN {headers[h_XRequestId]}
  ELSE {}

\* one id in the request's x-request-id header, in the response header when the
\* response can set one, and as the correlationId of the request's logger
SameIdEverywhere(request, id) ==
  /\ request.headers[CORRELATION_ID_HEADER] = id
  /\ IF request.setHeader
     THEN request.responseHeaders = SetHeader(<<>>, CORRELATION_ID_HEADER, id)
     ELSE request.responseHeaders = <<>>
  /\ loggers[request.logger].metadata.o[k_correlationId] = id

\* C27: the interceptor writes one correlation id to the request's x-request-id
\* header, to the response header when the response has setHeader, and binds it as
\* the correlationId of the request's logger; it is the id the client sent when the
\* request carried one, and a generated one otherwise
C27_OneIdClientsOrGenerated ==
  sites[1].phase # "arrived"
    => \E id \in (IF ClientIds(sites[1].received) # {} THEN ClientIds(sites[1].received)
                  ELSE {Str(u) : u \in uuidv4}) :
         SameIdEverywhere(sites[1], id)

\* the part of C27 that holds: one id in the three places, the client's when the
\* lower-case form holds it or is absent
C27_OneIdEverywhere ==
  sites[1].phase # "arrived"
    => /\ SameIdEverywhere(sites[1], sites[1].scope.correlationId)
       /\ (CORRELATION_ID_HEADER \notin DOMAIN sites[1].received
             \/ sites[1].received[CORRELATION_ID_HEADER].s # <<>>)
            => \E id \in (IF ClientIds(sites[1].received) # {}
                          THEN ClientIds(sites[1].received)
                          ELSE {Str(u) : u \in uuidv4}) :
                 sites[1].scope.correlationId = id

\* the capitalized form holds the client's id beside an empty lower-case form, and a
\* generated id is used
C27_ClientIdIgnored ==
  /\ sites[1].phase = "handling"
  /\ DOMAIN sites[1].received = {CORRELATION_ID_HEADER, h_XRequestId}
  /\ sites[1].received[CORRELATION_ID_HEADER] = Str(m_empty)
  /\ sites[1].received[h_XRequestId] = Str(v_idUpper)
  /\ sites[1].scope.correlationId \in {Str(u) : u \in uuidv4}

IsIncoming(call) ==
  call.level = "info" /\ startsWith(call.message, <<73, 110, 99, 111, 109, 105, 110, 103, 32, 114, 101, 113, 117, 101, 115, 116, 58, 32>>)

IsCompletion(call) ==
  \/ call.level = "info" /\ startsWith(call.message, <<82, 101, 113, 117, 101, 115, 116, 32, 99, 111, 109, 112, 108, 101, 116, 101, 100, 58, 32>>)
  \/ call.level = "warn" /\ startsWith(call.message, <<83, 108, 111, 119, 32, 114, 101, 113, 117, 101, 115, 116, 32, 100, 101, 116, 101, 99, 116, 101, 100, 58, 32>>)

IsFailure(call) ==
  call.level = "error" /\ startsWith(call.message, <<82, 101, 113, 117, 101, 115, 116, 32, 102, 97, 105, 108, 101, 100, 58, 32>>)

\* the records of a request so far: nothing, then the incoming record, then one
\* terminal record that fits how the handler ended
RecordsFit(request) ==
  CASE request.phase = "arrived" -> request.calls = <<>>
    [] request.phase = "handling" ->
         Len(request.calls) = 1 /\ IsIncoming(request.calls[1])
    [] request.phase = "responded" ->
         /\ Len(request.calls) = 2
         /\ IsIncoming(request.calls[1])
         /\ IsCompletion(request.calls[2]) /\ ~IsFailure(request.calls[2])
    [] request.phase = "failed" ->
         /\ Len(request.calls) = 2
         /\ IsIncoming(request.calls[1])
         /\ IsFailure(request.calls[2]) /\ ~IsCompletion(request.calls[2])

C29_WarnIffSlow ==
  sites[1].phase = "responded"
    => LET config == loggers[1].config
           duration == last.now - sites[1].scope.startTime
           expected == IF config.perfEnabled /\ duration >= config.perfThreshold
                       THEN "warn" ELSE "info"
       IN  /\ Len(sites[1].calls) = 2
           /\ sites[1].calls[2].level = expected
           /\ sites[1].calls[2].meta.o[<<100, 117, 114, 97, 116, 105, 111, 110>>] = Num(duration)
           /\ Len(sink) = 1
           /\ sink[1].level = expected

\* a request that took exactly perfThreshold, logged at warn
C29_Witness ==
  /\ sites[1].phase = "responded"
  /\ loggers[1].config.perfEnabled
  /\ last.now - sites[1].scope.startTime = loggers[1].config.perfThreshold
  /\ sites[1].calls[2].level = "warn"
  /\ sink[1].level = "warn"

\* the body a record carries, or Undefined when it carries none
BodyOf(meta) == IF <<98, 111, 100, 121>> \in DOMAIN meta.o THEN meta.o[<<98, 111, 100, 121>>] ELSE Undefined

\* what is logged for a body: the masked body when its serialized form has at most
\* bodyMaxSize characters, and otherwise the preview record, its preview the first
\* 500 characters of the serialized masked body followed by `suffix`
BodyAsLogged(config, body, suffix) ==
  LET masked == createMasker(config, body)
      serialized == stringify(masked).s
  IN  IF Len(serialized) <= config.bodyMaxSize THEN masked
      ELSE ObjFrom({<<<<95, 116, 114, 117, 110, 99, 97, 116, 101, 100>>, Bool(TRUE)>>,
                    <<<<95, 111, 114, 105, 103, 105, 110, 97, 108, 83, 105, 122, 101>>, Num(Len(serialized))>>,
                    <<<<95, 109, 97, 120, 83, 105, 122, 101>>, Num(config.bodyMaxSize)>>,
                    <<<<95, 112, 114, 101, 118, 105, 101, 119>>,
                      Str(SubSeq(serialized, 1, IF Len(serialized) < 500
                                                THEN Len(serialized) ELSE 500)
                            \o suffix)>>})

\* a record carries a body only when the switch for it is on, and then as logged
BodyFits(config, switch, call, body, suffix) ==
  BodyOf(call.meta) # Undefined
    => switch /\ BodyOf(call.meta) = BodyAsLogged(config, body, suffix)

\* the bodies of the records of a request, with the preview ending in `suffix`
BodiesFit(request, suffix) ==
  LET config == loggers[1].config
  IN  /\ request.phase # "arrived"
           => BodyFits(config, config.logRequestBody, request.calls[1], request.body,
                       suffix)
      /\ request.phase = "responded"
           => BodyFits(config, config.logResponseBody, request.calls[2],
                       request.delivered.value, suffix)
      /\ request.phase = "failed" => BodyOf(request.calls[2].meta) = Undefined

\* C30 as stated: a body is logged only when logRequestBody or logResponseBody is on,
\* and after masking: the masked body when its serialized size is at most
\* bodyMaxSize, otherwise a preview record with _truncated = true, _originalSize,
\* _maxSize = bodyMaxSize and _preview the first 500 characters of the serialized
\* masked body
C30_BodyMaskedOrPreview == BodiesFit(sites[1], <<>>)

\* C30, amended: as above, with _preview the first 500 characters of the serialized
\* masked body followed by "..."
C30_BodyMaskedOrPreviewWithEllipsis ==
  /\ BodiesFit(sites[1], <<46, 46, 46>>)
  /\ (sites[1].phase # "arrived" /\ sink # <<>>)
       => BodyOf(sink[1].meta) = BodyOf(sites[1].calls[Len(sites[1].calls)].meta)

\* a request body of more than 500 serialized characters with a password in it,
\* logged as a preview of 503 characters that shows the password redacted
C30_Witness ==
  /\ sites[1].phase = "handling"
  /\ loggers[1].config.maskEnabled
  /\ loggers[1].config.logRequestBody
  /\ sites[1].body = bodyLong
  /\ LET logged == BodyOf(sites[1].calls[1].meta)
     IN  /\ logged.t = "object"
         /\ logged.o[<<95, 116, 114, 117, 110, 99, 97, 116, 101, 100>>] = Bool(TRUE)
         /\ logged.o[<<95, 111, 114, 105, 103, 105, 110, 97, 108, 83, 105, 122, 101>>].n > 500
         /\ Len(logged.o[<<95, 112, 114, 101, 118, 105, 101, 119>>].s) = 503
         /\ StringIncludes(logged.o[<<95, 112, 114, 101, 118, 105, 101, 119>>].s, DEFAULT_MASK_PATTERN)
         /\ ~StringIncludes(logged.o[<<95, 112, 114, 101, 118, 105, 101, 119>>].s, v_secret)

\* a response body whose serialized masked form has exactly bodyMaxSize characters
\* is logged whole
C30_AtBodyMaxSize ==
  /\ sites[1].phase = "responded"
  /\ loggers[1].config.logResponseBody
  /\ sites[1].delivered.value = bodySecret
  /\ Len(stringify(BodyOf(sites[1].calls[2].meta)).s) = loggers[1].config.bodyMaxSize

====
